---- MODULE Spec2Model ----
(***************************************************************************)
(* Model of the matching-and-generation engine of the M3U/XMLTV channel   *)
(* matcher (src/core.py) and of the callers that edit its results         *)
(* (src/app.py).                                                           *)
(*                                                                         *)
(* Text is modelled as a sequence of atoms.  An atom is one character     *)
(* ("a", "A", "!", " ", ",", the double quote) or one of the literal      *)
(* substrings the regular expressions of core.py look for ("#EXTINF:",    *)
(* a run of digits with its sign, an attribute key with its opening       *)
(* quote).  Every text operation of the code is modelled on that          *)
(* representation by what it does to the text.                            *)
(***************************************************************************)
EXTENDS Integers, Sequences, FiniteSets, TLC

VARIABLES
    m3u_channels,            \* playlist catalog handed to auto_match_channels
    xmltv_channels,          \* guide catalog handed to auto_match_channels
    threshold,               \* threshold argument
    preserve_existing,       \* "prefer identifier continuity" argument
    cb_supplied,             \* TRUE iff a progress_callback was passed
    pc,                      \* position of the running operation
    i,                       \* loop index of auto_match_channels (0-based, as enumerate)
    indices,                 \* result of build_xmltv_indices, or NotBuilt
    processed_channels_data, \* the MatchResult list
    examined,                \* number of playlist entries the loop body has read
    cb_log,                  \* arguments of the progress callback, in call order
    cb_active,               \* number of callback invocations that have not returned
    cb_seen,                 \* Len(processed_channels_data) observed at each callback call
    rule_log,                \* which rule produced each MatchResult (history)
    match_ret,               \* value returned by auto_match_channels, or NotReturned
    out_file,                \* lines written by generate_m3u, or NotOpened
    count,                   \* generate_m3u's running count
    m3u_ret,                 \* value returned by generate_m3u, or NotReturned
    xmltv_files,             \* the guide source files generate_xmltv lists in its folder
    selected_channel_ids,    \* generate_xmltv's wanted set
    channel_elements_to_write, \* generate_xmltv's captured subtrees, by identifier
    program_count,           \* generate_xmltv's running programme count
    xmltv_out,               \* the file at generate_xmltv's output path
    xmltv_ret,               \* value returned by generate_xmltv, or NotReturned
    sources_data,            \* the declared sources handed to download_sources
    clean_folders,           \* download_sources' clean_folders argument
    folders,                 \* the files of the playlist and of the guide folder
    download_count,          \* download_sources' count of successful fetches
    m3u_download_successful, \* download_sources' playlist-group flag
    attempts,                \* the calls of download_or_copy so far (history)
    dl_ret,                  \* value returned by download_sources, or NotReturned
    norm_args,               \* the strings normalize_name is applied to
    normalized,              \* the values normalize_name returned for them
    args,                    \* the command-line arguments of run_headless
    playlist_folder,         \* what parse_m3u reads from the files of the playlist folder
    guide_folder,            \* what parse_xmltv reads from the files of the guide folder
    session_file,            \* the items of the session file the user loads
    is_loading,              \* TRUE while _set_loading_state has the widgets disabled
    tree_rows,               \* the row identifiers the tree shows (indices into the results)
    gui_op                   \* the last GUI handler that ran, and how (history)

vars == <<m3u_channels, xmltv_channels, threshold, preserve_existing, cb_supplied,
          pc, i, indices, processed_channels_data, examined, cb_log, cb_active,
          cb_seen, rule_log, match_ret, out_file, count, m3u_ret,
          xmltv_files, selected_channel_ids, channel_elements_to_write,
          program_count, xmltv_out, xmltv_ret,
          sources_data, clean_folders, folders, download_count,
          m3u_download_successful, attempts, dl_ret,
          norm_args, normalized,
          args, playlist_folder, guide_folder, session_file, is_loading,
          tree_rows, gui_op>>

\* the state of generate_xmltv and the state of download_sources
xmltv_vars == <<xmltv_files, selected_channel_ids, channel_elements_to_write,
                program_count, xmltv_out, xmltv_ret>>
dl_vars == <<sources_data, clean_folders, folders, download_count,
             m3u_download_successful, attempts, dl_ret>>
\* the state of the applications of normalize_name
norm_vars == <<norm_args, normalized>>
\* the state of the application around the engine
app_vars == <<args, playlist_folder, guide_folder, session_file, is_loading,
              tree_rows, gui_op>>
other_ops == <<xmltv_vars, dl_vars, norm_vars, app_vars>>

-----------------------------------------------------------------------------
(* Bounds of the model *)

\* longest playlist catalog handed to the matcher
MaxPlaylist == 2
\* longest guide catalog handed to the matcher
MaxGuide == 2
\* longest MatchResult list handed to generate_m3u
MaxResults == 3

-----------------------------------------------------------------------------
(* Atoms *)

H   == "#EXTINF:"
N   == "-1"
IDK == "tvg-id=\""
NMK == "tvg-name=\""
GRK == "group-title=\""
LGK == "tvg-logo=\""
Q   == "\""
SP  == " "
CM  == ","
TAB == "\t"
HY  == "-"
\* characters outside ASCII: the Kelvin sign, whose lower-case form is the
\* ASCII letter k, and the letter E with acute accent in both cases
KELVIN == "U+212A"
EACUTE == "U+00C9"
eacute == "U+00E9"

Lower == {"a", "b", "c", "d", "e", "f", "g", "k", "x", "y", "z"}
Digits == {"1"}
\* the characters \s matches
Whitespace == {SP, TAB}

\* str.lower() on one character (every character of the model has a
\* lower-case form of one character)
ToLower(ch) ==
    IF ch = "A" THEN "a"
    ELSE IF ch = "B" THEN "b"
    ELSE IF ch = KELVIN THEN "k"
    ELSE IF ch = EACUTE THEN eacute
    ELSE ch

\* characters kept by the removal of [^a-z0-9\s] (names hold single
\* characters only; the multi-character atoms occur in descriptors alone)
KeptByNormalize(ch) == ch \in Lower \/ ch \in Digits \/ ch \in Whitespace

-----------------------------------------------------------------------------
(* Sequence helpers *)

\* str.strip(): leading and trailing whitespace removed
RECURSIVE LStrip(_)
LStrip(s) == IF s # <<>> /\ Head(s) = SP THEN LStrip(Tail(s)) ELSE s

RECURSIVE RStrip(_)
RStrip(s) == IF s # <<>> /\ s[Len(s)] = SP THEN RStrip(SubSeq(s, 1, Len(s) - 1)) ELSE s

Strip(s) == RStrip(LStrip(s))

\* re.sub(r'\s+', ' ', s): every run of whitespace becomes one space
RECURSIVE CollapseSpaces(_)
CollapseSpaces(s) ==
    IF s = <<>> THEN <<>>
    ELSE IF s[1] \in Whitespace
         THEN IF Len(s) > 1 /\ s[2] \in Whitespace
              THEN CollapseSpaces(Tail(s))
              ELSE <<SP>> \o CollapseSpaces(Tail(s))
    ELSE <<s[1]>> \o CollapseSpaces(Tail(s))

\* t occurs in s as a contiguous substring (Python's  t in s)
Contains(s, t) ==
    \E p \in 1..(Len(s) - Len(t) + 1) : SubSeq(s, p, p + Len(t) - 1) = t

\* str.rfind(','): the last position of a comma, 0 when there is none
RFindComma(s) ==
    IF \E p \in 1..Len(s) : s[p] = CM
    THEN CHOOSE p \in 1..Len(s) : s[p] = CM /\ \A q \in (p + 1)..Len(s) : s[q] # CM
    ELSE 0

\* str.split(): maximal runs of non-whitespace, in order
RECURSIVE SplitWords(_)
SplitWords(s) ==
    LET t == LStrip(s) IN
    IF t = <<>> THEN <<>>
    ELSE LET stop == IF \E p \in 1..Len(t) : t[p] = SP
                     THEN CHOOSE p \in 1..Len(t) : t[p] = SP /\ \A q \in 1..(p - 1) : t[q] # SP
                     ELSE Len(t) + 1
         IN <<SubSeq(t, 1, stop - 1)>> \o SplitWords(SubSeq(t, stop, Len(t)))

Range(s) == {s[k] : k \in 1..Len(s)}

\* all sequences over S of length at most n
RECURSIVE SeqsUpTo(_, _)
SeqsUpTo(S, n) ==
    IF n = 0 THEN {<<>>}
    ELSE LET shorter == SeqsUpTo(S, n - 1)
         IN shorter \cup {Append(s, x) : s \in {t \in shorter : Len(t) = n - 1}, x \in S}

-----------------------------------------------------------------------------
(* normalize_name *)

NormalizeDropsBeforeLowering(name) ==
    LET kept    == SelectSeq(name, KeptByNormalize)
        lowered == [k \in 1..Len(kept) |-> ToLower(kept[k])]
    IN Strip(CollapseSpaces(lowered))

normalize_name(name) ==
    LET lowered == [k \in 1..Len(name) |-> ToLower(name[k])]
        kept    == SelectSeq(lowered, KeptByNormalize)
    IN Strip(CollapseSpaces(kept))

-----------------------------------------------------------------------------
(* parse_m3u: the fields taken from one descriptor line *)

QuoteAtoms == {Q, IDK, NMK, GRK, LGK}

\* positions p at which  key"[^"]+"  matches: the key, one or more atoms
\* without a quote, a closing quote
AttrMatches(d, key) ==
    {p \in 1..Len(d) :
        /\ d[p] = key
        /\ \E q \in (p + 2)..Len(d) :
              /\ d[q] = Q
              /\ \A r \in (p + 1)..(q - 1) : d[r] \notin QuoteAtoms}

\* re.search(key"([^"]+)").group(1).strip() at the leftmost match, "" when
\* nothing matches
AttrValue(d, key) ==
    IF AttrMatches(d, key) = {} THEN <<>>
    ELSE LET p == CHOOSE x \in AttrMatches(d, key) : \A y \in AttrMatches(d, key) : x <= y
             q == CHOOSE x \in (p + 2)..Len(d) :
                     d[x] = Q /\ \A r \in (p + 1)..(x - 1) : d[r] \notin QuoteAtoms
         IN Strip(SubSeq(d, p + 1, q - 1))

\* extinf_line.split(',')[-1].strip()
AfterLastComma(d) == Strip(SubSeq(d, RFindComma(d) + 1, Len(d)))

parse_m3u(d, url) ==
    [name            |-> IF AttrMatches(d, NMK) # {} THEN AttrValue(d, NMK)
                         ELSE AfterLastComma(d),
     url             |-> url,
     original_extinf |-> d,
     tvg_id          |-> AttrValue(d, IDK),
     group_title     |-> AttrValue(d, GRK)]

-----------------------------------------------------------------------------
(* The inputs the model draws from *)

\* #EXTINF:-1 group-title="g",Ab
D_plain   == <<H, N, SP, GRK, "g", Q, CM, "A", "b">>
\* #EXTINF:-1 tvg-id="x" group-title="g",ab
D_id      == <<H, N, SP, IDK, "x", Q, SP, GRK, "g", Q, CM, "a", "b">>
\* #EXTINF:-1 tvg-id="",ab c
D_emptyid == <<H, N, SP, IDK, Q, CM, "a", "b", SP, "c">>
\* #EXTINF: -1 group-title="z",zz     (a space before the duration)
D_nonum   == <<H, SP, N, SP, GRK, "z", Q, CM, "z", "z">>

Descriptors == {D_plain, D_id, D_emptyid, D_nonum}

UrlOf(d) ==
    IF d = D_plain THEN <<"u", "a">>
    ELSE IF d = D_id THEN <<"u", "b">>
    ELSE IF d = D_emptyid THEN <<"u", "c">>
    ELSE <<"u", "d">>

PlaylistEntries == {parse_m3u(d, UrlOf(d)) : d \in Descriptors}

Playlists == SeqsUpTo(PlaylistEntries, MaxPlaylist)

\* what parse_xmltv reads of a channel subtree: identifier and primary
\* display name (stripped by the parser)
Ch_plain == [id |-> <<"x">>, display_name |-> <<"a", "b">>]
\* the same normalized name as Ch_plain, with a comma in it
Ch_comma == [id |-> <<"y">>, display_name |-> <<"A", CM, "b">>]
\* the same identifier as Ch_plain
Ch_dupid == [id |-> <<"x">>, display_name |-> <<"c", "d", SP, "e">>]

ChannelKinds == {Ch_plain, Ch_comma, Ch_dupid}

\* a guide catalog: each channel carries the reference to its own subtree
\* ('element'), here its position among the parsed channels
GuideOf(s) ==
    [k \in 1..Len(s) |->
        [id |-> s[k].id, display_name |-> s[k].display_name, element |-> k]]

Guides == {GuideOf(s) : s \in SeqsUpTo(ChannelKinds, MaxGuide)}

Thresholds == {0, 70, 100}

\* Python's None
None == [none |-> TRUE]

NotBuilt    == [built |-> FALSE]
NotReturned == [returned |-> FALSE]
NotOpened   == [opened |-> FALSE]

-----------------------------------------------------------------------------
(* build_xmltv_indices *)

NormKey(ch) == normalize_name(ch.display_name)

FirstWithName(xs, k) ==
    xs[CHOOSE p \in 1..Len(xs) :
          NormKey(xs[p]) = k /\ \A q \in 1..(p - 1) : NormKey(xs[q]) # k]

\* line 79, {normalize_name(ch['display_name']): ch for ch in xmltv_channels}:
\* a later channel with the same key replaces the earlier one
LastWithName(xs, k) ==
    xs[CHOOSE p \in 1..Len(xs) :
          NormKey(xs[p]) = k /\ \A q \in (p + 1)..Len(xs) : NormKey(xs[q]) # k]

\* line 80, {ch['id']: ch for ch in xmltv_channels if 'id' in ch}
LastWithId(xs, k) ==
    xs[CHOOSE p \in 1..Len(xs) :
          xs[p].id = k /\ \A q \in (p + 1)..Len(xs) : xs[q].id # k]

\* tokens of a normalized name that the token index registers
IndexedTokens(norm) == {t \in Range(SplitWords(norm)) : Len(t) > 1}

build_xmltv_indices(xs) ==
    [built |-> TRUE,
     token_index |->
        [t \in UNION {IndexedTokens(NormKey(xs[p])) : p \in 1..Len(xs)} |->
            {xs[p].display_name : p \in {r \in 1..Len(xs) : t \in IndexedTokens(NormKey(xs[r]))}}],
     channels_by_display_name |->
        [k \in {NormKey(xs[p]) : p \in 1..Len(xs)} |-> LastWithName(xs, k)],
     channels_by_id |->
        [k \in {xs[p].id : p \in 1..Len(xs)} |-> LastWithId(xs, k)]]

-----------------------------------------------------------------------------
(* process.extractOne(query, choices, scorer=fuzz.ratio), the call of line  *)
(* 139 into the fuzzywuzzy library: query and choices go through the       *)
(* library's default processor, and the ratio of two texts is 2*M/T in     *)
(* percent, M the number of matching characters and T the total length.    *)

\* the default processor: characters that are neither letters nor digits
\* become spaces, the text is lowercased and stripped
FullProcess(s) ==
    Strip([k \in 1..Len(s) |->
              IF ToLower(s[k]) \in Lower THEN ToLower(s[k]) ELSE SP])

RECURSIVE MatchLen(_, _)
\* number of matching characters of two texts (longest common subsequence)
MatchLen(s, t) ==
    IF s = <<>> \/ t = <<>> THEN 0
    ELSE IF s[Len(s)] = t[Len(t)]
         THEN 1 + MatchLen(SubSeq(s, 1, Len(s) - 1), SubSeq(t, 1, Len(t) - 1))
         ELSE LET a == MatchLen(SubSeq(s, 1, Len(s) - 1), t)
                  b == MatchLen(s, SubSeq(t, 1, Len(t) - 1))
              IN IF a >= b THEN a ELSE b

\* int(round(100 * 2*M/T)), rounding halves to the even neighbour
RoundedPercent(m, total) ==
    LET x  == 200 * m
        qt == x \div total
        r  == x % total
    IN IF 2 * r < total THEN qt
       ELSE IF 2 * r > total THEN qt + 1
       ELSE IF qt % 2 = 0 THEN qt ELSE qt + 1

\* fuzz.ratio: 0 for an empty text, else the rounded similarity percentage
Ratio(s, t) ==
    IF s = <<>> \/ t = <<>> THEN 0
    ELSE RoundedPercent(MatchLen(s, t), Len(s) + Len(t))

Score(query, choice) == Ratio(FullProcess(query), FullProcess(choice))

\* the choices extractOne may return from a pool that is a set: max() keeps
\* the first best choice in iteration order, and a set's order is arbitrary
BestOfSet(query, pool) ==
    LET sc == [c \in pool |-> Score(query, c)]
    IN {c \in pool : \A o \in pool : sc[o] <= sc[c]}

\* from a pool that is a list: the first best choice in list order
BestOfList(query, names) ==
    LET sc == [p \in 1..Len(names) |-> Score(query, names[p])]
    IN names[CHOOSE p \in 1..Len(names) :
                /\ \A q \in 1..Len(names) : sc[q] <= sc[p]
                /\ \A q \in 1..(p - 1) : sc[q] < sc[p]]

-----------------------------------------------------------------------------
(* auto_match_channels: the per-entry rules *)

\* line 127: the exact-name rule
ExactNameRuleApplies(m3u_channel, idx) ==
    normalize_name(m3u_channel.name) \in DOMAIN idx.channels_by_display_name

IdentifierRuleAfterName(m3u_channel, idx, preserve) ==
    /\ preserve
    /\ Strip(m3u_channel.tvg_id) # <<>>
    /\ Strip(m3u_channel.tvg_id) \in DOMAIN idx.channels_by_id
    /\ ~ExactNameRuleApplies(m3u_channel, idx)

IdentifierRuleIgnoresFlag(m3u_channel, idx, preserve) ==
    /\ Strip(m3u_channel.tvg_id) # <<>>
    /\ Strip(m3u_channel.tvg_id) \in DOMAIN idx.channels_by_id

\* line 116: the identifier rule
IdentifierRuleApplies(m3u_channel, idx, preserve) ==
    /\ preserve
    /\ Strip(m3u_channel.tvg_id) # <<>>
    /\ Strip(m3u_channel.tvg_id) \in DOMAIN idx.channels_by_id

\* lines 131-135: union of the token-index sets of the entry's tokens
candidate_names(m3u_channel, idx) ==
    UNION {idx.token_index[t] :
             t \in IndexedTokens(normalize_name(m3u_channel.name))
                      \cap DOMAIN idx.token_index}

all_xmltv_original_display_names(xs) == [p \in 1..Len(xs) |-> xs[p].display_name]

MatchedNamesNoFallback(m3u_channel, xs, idx) ==
    IF candidate_names(m3u_channel, idx) # {}
    THEN BestOfSet(m3u_channel.name, candidate_names(m3u_channel, idx))
    ELSE {}

\* lines 137-142: the names extractOne may return
MatchedNames(m3u_channel, xs, idx) ==
    LET candidates == candidate_names(m3u_channel, idx)
    IN IF candidates # {}
       THEN BestOfSet(m3u_channel.name, candidates)
       ELSE IF Len(xs) > 0
            THEN {BestOfList(m3u_channel.name, all_xmltv_original_display_names(xs))}
            ELSE {}

\* dict.get(key): None for a missing key
GetOrNone(map, key) == IF key \in DOMAIN map THEN map[key] ELSE None

\* lines 114-142: the (association, score) pairs the rules can produce
MatchOutcomes(m3u_channel, xs, idx, preserve) ==
    IF IdentifierRuleApplies(m3u_channel, idx, preserve)
    THEN {[xmltv_match |-> idx.channels_by_id[Strip(m3u_channel.tvg_id)],
           score |-> 100, rule |-> "identifier"]}
    ELSE IF ExactNameRuleApplies(m3u_channel, idx)
    THEN {[xmltv_match |-> idx.channels_by_display_name[normalize_name(m3u_channel.name)],
           score |-> 100, rule |-> "exact"]}
    ELSE LET matched == MatchedNames(m3u_channel, xs, idx)
         IN IF matched = {}
            THEN {[xmltv_match |-> None, score |-> 0, rule |-> "fuzzy"]}
            ELSE {[xmltv_match |-> GetOrNone(idx.channels_by_display_name, normalize_name(nm)),
                   score |-> Score(m3u_channel.name, nm), rule |-> "fuzzy"] :
                     nm \in matched}

SelectedAboveThreshold(score, thr) == score > thr

\* line 148
SelectedAtCreation(score, thr) == score >= thr

\* lines 144-149: the MatchResult appended for an entry
NewMatchResult(m3u_channel, outcome, thr) ==
    [m3u_data    |-> m3u_channel,
     xmltv_match |-> outcome.xmltv_match,
     score       |-> outcome.score,
     selected    |-> SelectedAtCreation(outcome.score, thr)]

-----------------------------------------------------------------------------
(* auto_match_channels as a process *)

\* normalize_name is not under study
NormalizeIdle ==
    /\ norm_args = [x |-> <<>>, y |-> <<>>]
    /\ normalized = [x |-> NotReturned, y |-> NotReturned, xx |-> NotReturned]

\* the engine is called directly, no application around it
NoArgs == [headless |-> FALSE]
NoOp == [name |-> "none", during_worker |-> FALSE, raised |-> "nothing"]
AppIdle ==
    /\ args = NoArgs
    /\ playlist_folder = <<>>
    /\ guide_folder = <<>>
    /\ session_file = <<>>
    /\ is_loading = FALSE
    /\ tree_rows = {}
    /\ gui_op = NoOp

\* generate_xmltv has not been called
XmltvIdle ==
    /\ xmltv_files = <<>>
    /\ selected_channel_ids = {}
    /\ channel_elements_to_write = <<>>
    /\ program_count = 0
    /\ xmltv_out = NotOpened
    /\ xmltv_ret = NotReturned

\* download_sources has not been called
DownloadIdle ==
    /\ sources_data = [M3U |-> <<>>, EPG |-> <<>>]
    /\ clean_folders = FALSE
    /\ folders = [M3U |-> <<>>, EPG |-> <<>>]
    /\ download_count = 0
    /\ m3u_download_successful = FALSE
    /\ attempts = <<>>
    /\ dl_ret = NotReturned

Init ==
    /\ m3u_channels \in Playlists
    /\ xmltv_channels \in Guides
    /\ threshold \in Thresholds
    /\ preserve_existing \in BOOLEAN
    /\ cb_supplied \in BOOLEAN
    /\ pc = "called"
    /\ i = 0
    /\ indices = NotBuilt
    /\ processed_channels_data = <<>>
    /\ examined = 0
    /\ cb_log = <<>>
    /\ cb_active = 0
    /\ cb_seen = <<>>
    /\ rule_log = <<>>
    /\ match_ret = NotReturned
    /\ out_file = NotOpened
    /\ count = 0
    /\ m3u_ret = NotReturned
    /\ XmltvIdle
    /\ DownloadIdle
    /\ NormalizeIdle
    /\ AppIdle

inputs == <<m3u_channels, xmltv_channels, threshold, preserve_existing, cb_supplied>>
gen_vars == <<out_file, count, m3u_ret>>
cb_vars == <<cb_log, cb_active, cb_seen>>
auto_match_vars == <<indices, examined, cb_vars, rule_log, match_ret>>

ReturnEmptyFallsThrough ==
    /\ pc = "called"
    /\ Len(xmltv_channels) = 0
    /\ indices' = build_xmltv_indices(xmltv_channels)
    /\ pc' = "loop"
    /\ UNCHANGED <<inputs, other_ops, i, processed_channels_data, examined, cb_vars, match_ret, rule_log, gen_vars>>

ReturnEmptyAfterIndexing ==
    /\ pc = "called"
    /\ Len(xmltv_channels) = 0
    /\ indices' = build_xmltv_indices(xmltv_channels)
    /\ match_ret' = <<>>
    /\ pc' = "returned"
    /\ UNCHANGED <<inputs, other_ops, i, processed_channels_data, examined, cb_vars, rule_log, gen_vars>>

\* lines 98-101: the guide catalog is empty
ReturnEmpty ==
    /\ pc = "called"
    /\ Len(xmltv_channels) = 0
    /\ match_ret' = <<>>
    /\ pc' = "returned"
    /\ UNCHANGED <<inputs, other_ops, i, indices, processed_channels_data, examined, cb_vars, rule_log, gen_vars>>

\* lines 103-106
BuildIndices ==
    /\ pc = "called"
    /\ Len(xmltv_channels) > 0
    /\ indices' = build_xmltv_indices(xmltv_channels)
    /\ pc' = "loop"
    /\ UNCHANGED <<inputs, other_ops, i, processed_channels_data, examined, cb_vars, match_ret, rule_log, gen_vars>>

CallProgressThrottled ==
    /\ pc = "loop"
    /\ i < Len(m3u_channels)
    /\ cb_supplied
    /\ examined' = examined + 1
    /\ IF i % 2 = 0
       THEN /\ cb_log' = Append(cb_log, i + 1)
            /\ cb_seen' = Append(cb_seen, Len(processed_channels_data))
            /\ cb_active' = cb_active + 1
            /\ pc' = "in_callback"
       ELSE /\ UNCHANGED cb_vars
            /\ pc' = "match"
    /\ UNCHANGED <<inputs, other_ops, i, indices, processed_channels_data, match_ret, rule_log, gen_vars>>

CallProgressZeroBased ==
    /\ pc = "loop"
    /\ i < Len(m3u_channels)
    /\ cb_supplied
    /\ examined' = examined + 1
    /\ cb_log' = Append(cb_log, i)
    /\ cb_seen' = Append(cb_seen, Len(processed_channels_data))
    /\ cb_active' = cb_active + 1
    /\ pc' = "in_callback"
    /\ UNCHANGED <<inputs, other_ops, i, indices, processed_channels_data, match_ret, rule_log, gen_vars>>

\* lines 108-110: the loop takes the next entry and calls the callback
CallProgress ==
    /\ pc = "loop"
    /\ i < Len(m3u_channels)
    /\ cb_supplied
    /\ examined' = examined + 1
    /\ cb_log' = Append(cb_log, i + 1)
    /\ cb_seen' = Append(cb_seen, Len(processed_channels_data))
    /\ cb_active' = cb_active + 1
    /\ pc' = "in_callback"
    /\ UNCHANGED <<inputs, other_ops, i, indices, processed_channels_data, match_ret, rule_log, gen_vars>>

\* the callback returns to the loop body
ProgressReturns ==
    /\ pc = "in_callback"
    /\ cb_active' = cb_active - 1
    /\ pc' = "match"
    /\ UNCHANGED <<inputs, other_ops, i, indices, processed_channels_data, examined, cb_log, cb_seen,
                   match_ret, rule_log, gen_vars>>

\* lines 108-109 without a callback
SkipProgress ==
    /\ pc = "loop"
    /\ i < Len(m3u_channels)
    /\ ~cb_supplied
    /\ examined' = examined + 1
    /\ pc' = "match"
    /\ UNCHANGED <<inputs, other_ops, i, indices, processed_channels_data, cb_vars, match_ret, rule_log, gen_vars>>

MatchEntrySkipsRepeats ==
    /\ pc = "match"
    /\ \E outcome \in MatchOutcomes(m3u_channels[i + 1], xmltv_channels, indices,
                                    preserve_existing) :
          /\ processed_channels_data' =
                IF \E k \in 1..Len(processed_channels_data) :
                      processed_channels_data[k].m3u_data = m3u_channels[i + 1]
                THEN processed_channels_data
                ELSE Append(processed_channels_data,
                            NewMatchResult(m3u_channels[i + 1], outcome, threshold))
          /\ rule_log' = Append(rule_log, outcome.rule)
    /\ i' = i + 1
    /\ pc' = "loop"
    /\ UNCHANGED <<inputs, other_ops, indices, examined, cb_vars, match_ret, gen_vars>>

\* lines 112-149: the rules run for entry i and its MatchResult is appended
MatchEntry ==
    /\ pc = "match"
    /\ \E outcome \in MatchOutcomes(m3u_channels[i + 1], xmltv_channels, indices,
                                    preserve_existing) :
          /\ processed_channels_data' =
                Append(processed_channels_data,
                       NewMatchResult(m3u_channels[i + 1], outcome, threshold))
          /\ rule_log' = Append(rule_log, outcome.rule)
    /\ i' = i + 1
    /\ pc' = "loop"
    /\ UNCHANGED <<inputs, other_ops, indices, examined, cb_vars, match_ret, gen_vars>>

\* lines 150-151
ReturnResults ==
    /\ pc = "loop"
    /\ i = Len(m3u_channels)
    /\ match_ret' = processed_channels_data
    /\ pc' = "returned"
    /\ UNCHANGED <<inputs, other_ops, i, indices, processed_channels_data, examined, cb_vars, rule_log, gen_vars>>

Next ==
    \/ ReturnEmpty
    \/ BuildIndices
    \/ CallProgress
    \/ ProgressReturns
    \/ SkipProgress
    \/ MatchEntry
    \/ ReturnResults

Spec == Init /\ [][Next]_vars

-----------------------------------------------------------------------------
(* Properties of auto_match_channels, checked under Spec *)

\* positions of the guide catalog whose identifier is the entry's stripped hint
CarriersOf(m3u_channel) ==
    {p \in 1..Len(xmltv_channels) : xmltv_channels[p].id = Strip(m3u_channel.tvg_id)}

\* positions of the guide catalog whose normalized primary name is the
\* entry's normalized name
NamesakesOf(m3u_channel) ==
    {p \in 1..Len(xmltv_channels) :
        normalize_name(xmltv_channels[p].display_name) = normalize_name(m3u_channel.name)}

Last(S) == CHOOSE p \in S : \A q \in S : q <= p

\* the identifier rule applies to an entry, stated on the catalog itself
HintHonoured(m3u_channel) ==
    /\ preserve_existing
    /\ Strip(m3u_channel.tvg_id) # <<>>
    /\ CarriersOf(m3u_channel) # {}

\* C1: with preserve_existing set, an entry whose non-empty identifier hint
\* is carried by a guide channel gets score 100 and the last guide channel
\* in catalog order that carries the hint, whatever its name matches.
C1_IdentifierPriority ==
    \A k \in 1..Len(processed_channels_data) :
        LET r == processed_channels_data[k] IN
        HintHonoured(m3u_channels[k]) =>
            /\ r.score = 100
            /\ r.xmltv_match = xmltv_channels[Last(CarriersOf(m3u_channels[k]))]

\* an entry matched by its hint although another channel's name equals the
\* entry's name exactly
C1_Witness ==
    \E k \in 1..Len(processed_channels_data) :
        /\ HintHonoured(m3u_channels[k])
        /\ NamesakesOf(m3u_channels[k]) # {}
        /\ processed_channels_data[k].xmltv_match.element \notin NamesakesOf(m3u_channels[k])
        /\ Cardinality(CarriersOf(m3u_channels[k])) > 1

\* C2: an entry the identifier rule does not apply to, whose normalized
\* name equals a guide channel's normalized primary name, gets score 100
\* and the last such channel in catalog order, by the exact-name rule and
\* not by the fuzzy tier.
C2_ExactName ==
    \A k \in 1..Len(processed_channels_data) :
        LET r == processed_channels_data[k] IN
        (~HintHonoured(m3u_channels[k]) /\ NamesakesOf(m3u_channels[k]) # {}) =>
            /\ r.score = 100
            /\ r.xmltv_match = xmltv_channels[Last(NamesakesOf(m3u_channels[k]))]
            /\ rule_log[k] = "exact"

\* an exact-name match decided between two guide channels with the same
\* normalized name, for an entry whose raw name differs from both
C2_Witness ==
    \E k \in 1..Len(processed_channels_data) :
        /\ ~HintHonoured(m3u_channels[k])
        /\ Cardinality(NamesakesOf(m3u_channels[k])) > 1
        /\ rule_log[k] = "exact"
        /\ \A p \in NamesakesOf(m3u_channels[k]) :
              xmltv_channels[p].display_name # m3u_channels[k].name
        /\ xmltv_channels[1].display_name # xmltv_channels[2].display_name

\* C3: every MatchResult has 0 <= score <= 100 and selected = (score >= threshold).
C3_ScoreBounds ==
    \A k \in 1..Len(processed_channels_data) :
        LET r == processed_channels_data[k] IN
        /\ 0 <= r.score
        /\ r.score <= 100
        /\ r.selected = (r.score >= threshold)

\* results of all three rules side by side: a fuzzy score strictly between
\* the bounds that misses the threshold, and a score equal to the threshold
C3_Witness ==
    /\ \E k \in 1..Len(processed_channels_data) :
          LET r == processed_channels_data[k] IN
          rule_log[k] = "fuzzy" /\ 0 < r.score /\ r.score < threshold /\ ~r.selected
    /\ \E k \in 1..Len(processed_channels_data) :
          LET r == processed_channels_data[k] IN
          rule_log[k] # "fuzzy" /\ r.score = threshold /\ r.selected

\* C4 as stated: against an empty guide catalog the result list has the
\* playlist's length and every entry is unassociated with score 0.
C4_AsStated ==
    (pc = "returned" /\ Len(xmltv_channels) = 0) =>
        /\ Len(match_ret) = Len(m3u_channels)
        /\ \A k \in 1..Len(match_ret) :
              match_ret[k].xmltv_match = None /\ match_ret[k].score = 0

\* C4 (amended): against an empty guide catalog the returned list is empty,
\* whatever the length of the playlist catalog: it holds no entry,
\* associated or not.
C4_EmptyGuideYieldsEmptyList ==
    (pc = "returned" /\ Len(xmltv_channels) = 0) => Len(match_ret) = 0

\* the matcher has returned for a two-entry playlist and an empty guide
C4_Witness ==
    /\ pc = "returned"
    /\ Len(xmltv_channels) = 0
    /\ Len(m3u_channels) = 2
    /\ match_ret = <<>>

\* C5: with an empty guide catalog the matcher returns the empty list in
\* its first step: no index is built, no playlist entry is examined, no
\* result is produced and the callback is never invoked.
C5_EmptyGuideShortCircuit ==
    Len(xmltv_channels) = 0 =>
        /\ pc \in {"called", "returned"}
        /\ indices = NotBuilt
        /\ examined = 0
        /\ processed_channels_data = <<>>
        /\ cb_log = <<>>
        /\ cb_active = 0
        /\ pc = "returned" => match_ret = <<>>

\* the short circuit taken with a callback supplied and entries waiting
C5_Witness ==
    /\ pc = "returned"
    /\ Len(xmltv_channels) = 0
    /\ Len(m3u_channels) > 0
    /\ cb_supplied
    /\ cb_log = <<>>
    /\ indices = NotBuilt

\* C6: for a non-empty guide catalog the returned list has one MatchResult
\* per playlist entry, the k-th result owning the k-th entry.
C6_OneResultPerEntryInOrder ==
    (pc = "returned" /\ Len(xmltv_channels) > 0) =>
        /\ Len(match_ret) = Len(m3u_channels)
        /\ \A k \in 1..Len(match_ret) : match_ret[k].m3u_data = m3u_channels[k]

\* returned for a playlist that repeats an entry, both copies mapped to the
\* same guide channel
C6_Witness ==
    /\ pc = "returned"
    /\ Len(xmltv_channels) > 0
    /\ Len(m3u_channels) = 2
    /\ m3u_channels[1] = m3u_channels[2]
    /\ Len(match_ret) = 2
    /\ match_ret[1].xmltv_match = match_ret[2].xmltv_match
    /\ match_ret[1].xmltv_match # None

\* C7: with a non-empty guide catalog and a callback supplied, the callback
\* is called with 1, 2, ..., n in this order, n times by the time the
\* matcher returns, and never while an earlier call is still running.
C7_ProgressOncePerEntry ==
    (cb_supplied /\ Len(xmltv_channels) > 0) =>
        /\ cb_log = [k \in 1..Len(cb_log) |-> k]
        /\ cb_active <= 1
        /\ cb_active = 1 <=> pc = "in_callback"
        /\ pc = "returned" => Len(cb_log) = Len(m3u_channels)
        /\ pc = "match" => Len(cb_log) = i + 1
        /\ pc = "loop" => Len(cb_log) = i

\* a finished run of two entries decided by different rules
C7_Witness ==
    /\ pc = "returned"
    /\ cb_supplied
    /\ cb_log = <<1, 2>>
    /\ Len(match_ret) = 2
    /\ rule_log[1] # rule_log[2]

\* C8 as stated: when the callback is called with count k, k MatchResults
\* have been produced.
C8_AsStated ==
    \A c \in 1..Len(cb_log) : cb_seen[c] = cb_log[c]

\* C8 (amended): the callback is called before the entry is processed: when
\* it is called with count k, k - 1 MatchResults have been produced and the
\* k-th is appended only after the callback has returned.
C8_ProgressBeforeEntry ==
    /\ \A c \in 1..Len(cb_log) : cb_seen[c] = cb_log[c] - 1
    /\ pc = "in_callback" =>
          Len(processed_channels_data) = cb_log[Len(cb_log)] - 1
    /\ pc = "match" /\ cb_supplied =>
          Len(processed_channels_data) = cb_log[Len(cb_log)] - 1

\* the callback is running for the second entry
C8_Witness ==
    /\ pc = "in_callback"
    /\ cb_log = <<1, 2>>
    /\ Len(processed_channels_data) = 1

-----------------------------------------------------------------------------
(* generate_m3u: the descriptor rewrite *)

\* the attribute text  tvg-id="<id>"
IdAttr(id) == <<IDK>> \o id \o <<Q>>

\* position of the quote that closes a  tvg-id="[^"]*"  match starting at
\* position p, 0 when the match fails there
IdAttrEnd(d, p) ==
    IF d[p] = IDK /\ \E q \in (p + 1)..Len(d) :
                        d[q] = Q /\ \A r \in (p + 1)..(q - 1) : d[r] \notin QuoteAtoms
    THEN CHOOSE q \in (p + 1)..Len(d) :
            d[q] = Q /\ \A r \in (p + 1)..(q - 1) : d[r] \notin QuoteAtoms
    ELSE 0

RECURSIVE SubTvgIdNonEmpty(_, _)
SubTvgIdNonEmpty(d, id) ==
    IF d = <<>> THEN <<>>
    ELSE IF IdAttrEnd(d, 1) > 2
         THEN IdAttr(id) \o SubTvgIdNonEmpty(SubSeq(d, IdAttrEnd(d, 1) + 1, Len(d)), id)
         ELSE <<Head(d)>> \o SubTvgIdNonEmpty(Tail(d), id)

RECURSIVE SubTvgId(_, _)
\* line 235, re.sub(r'tvg-id="[^"]*"', 'tvg-id="<id>"', extinf): every
\* match, left to right, is replaced
SubTvgId(d, id) ==
    IF d = <<>> THEN <<>>
    ELSE IF IdAttrEnd(d, 1) # 0
         THEN IdAttr(id) \o SubTvgId(SubSeq(d, IdAttrEnd(d, 1) + 1, Len(d)), id)
         ELSE <<Head(d)>> \o SubTvgId(Tail(d), id)

\* positions where  #EXTINF:[-]?\d+  matches: the tag directly followed by
\* the digits of the duration
DurationMatches(d) == {p \in 1..(Len(d) - 1) : d[p] = H /\ d[p + 1] = N}

\* line 237, re.sub(r'(#EXTINF:[-]?\d+)', r'\1 tvg-id="<id>"', new_extinf, 1):
\* the attribute goes behind the first match, nothing happens without one
InsertTvgId(d, id) ==
    IF DurationMatches(d) = {} THEN d
    ELSE LET p == CHOOSE x \in DurationMatches(d) : \A y \in DurationMatches(d) : x <= y
         IN SubSeq(d, 1, p + 1) \o <<SP>> \o IdAttr(id) \o SubSeq(d, p + 2, Len(d))

\* lines 238-239
ReplaceTrailingName(d, display_name) ==
    IF RFindComma(d) # 0 THEN SubSeq(d, 1, RFindComma(d)) \o display_name ELSE d

\* lines 234-240: the descriptor line written for a result
RewrittenExtinf(m3u, xmltv) ==
    LET substituted == SubTvgId(m3u.original_extinf, xmltv.id)
        with_id     == IF ~Contains(substituted, IdAttr(xmltv.id))
                       THEN InsertTvgId(substituted, xmltv.id)
                       ELSE substituted
    IN Strip(ReplaceTrailingName(with_id, xmltv.display_name))

AssociatedOnly(item) == item.xmltv_match # None

\* line 232: item['selected'] and item['xmltv_match']
IsWritten(item) == item.selected /\ item.xmltv_match # None

M3uHeader == <<"#EXTM3U">>

-----------------------------------------------------------------------------
(* generate_m3u as a process, over MatchResult lists of any origin *)

\* the associations a result list may carry: none, or a guide channel
Associations == {None} \cup {GuideOf(<<c>>)[1] : c \in {Ch_plain, Ch_comma}}

\* MatchResults as the matcher, the manual edits of the GUI or a restored
\* session leave them
MatchResults ==
    {[m3u_data |-> e, xmltv_match |-> a,
      score |-> IF a = None THEN 0 ELSE 100, selected |-> sel] :
        e \in PlaylistEntries, a \in Associations, sel \in BOOLEAN}

InitM3U ==
    /\ processed_channels_data \in SeqsUpTo(MatchResults, MaxResults)
    /\ m3u_channels = <<>>
    /\ xmltv_channels = <<>>
    /\ threshold = 0
    /\ preserve_existing = FALSE
    /\ cb_supplied = FALSE
    /\ pc = "m3u_called"
    /\ i = 0
    /\ indices = NotBuilt
    /\ examined = 0
    /\ cb_log = <<>>
    /\ cb_active = 0
    /\ cb_seen = <<>>
    /\ rule_log = <<>>
    /\ match_ret = NotReturned
    /\ out_file = NotOpened
    /\ count = 0
    /\ m3u_ret = NotReturned
    /\ XmltvIdle
    /\ DownloadIdle
    /\ NormalizeIdle
    /\ AppIdle

\* lines 228-230: the file is opened and the header written
M3uOpen ==
    /\ pc = "m3u_called"
    /\ out_file' = <<M3uHeader>>
    /\ count' = 0
    /\ i' = 0
    /\ pc' = "m3u_loop"
    /\ UNCHANGED <<inputs, other_ops, processed_channels_data, auto_match_vars, m3u_ret>>

\* lines 231-242 for a result that is written
M3uWriteItem ==
    /\ pc = "m3u_loop"
    /\ i < Len(processed_channels_data)
    /\ IsWritten(processed_channels_data[i + 1])
    /\ LET item == processed_channels_data[i + 1] IN
          out_file' = out_file \o <<RewrittenExtinf(item.m3u_data, item.xmltv_match),
                                    item.m3u_data.url>>
    /\ count' = count + 1
    /\ i' = i + 1
    /\ UNCHANGED <<inputs, other_ops, pc, processed_channels_data, auto_match_vars, m3u_ret>>

\* lines 231-232 for a result that is passed over
M3uSkipItem ==
    /\ pc = "m3u_loop"
    /\ i < Len(processed_channels_data)
    /\ ~IsWritten(processed_channels_data[i + 1])
    /\ i' = i + 1
    /\ UNCHANGED <<inputs, other_ops, pc, processed_channels_data, auto_match_vars, gen_vars>>

\* lines 243-245: the file is closed and the count returned
M3uReturn ==
    /\ pc = "m3u_loop"
    /\ i = Len(processed_channels_data)
    /\ m3u_ret' = count
    /\ pc' = "m3u_returned"
    /\ UNCHANGED <<inputs, other_ops, i, processed_channels_data, auto_match_vars, out_file, count>>

NextM3U ==
    \/ M3uOpen
    \/ M3uWriteItem
    \/ M3uSkipItem
    \/ M3uReturn

SpecM3U == InitM3U /\ [][NextM3U]_vars

-----------------------------------------------------------------------------
(* Properties of generate_m3u, checked under SpecM3U *)

RECURSIVE WantedUpTo(_)
\* positions of the results that are selected and associated, ascending
WantedUpTo(n) ==
    IF n = 0 THEN <<>>
    ELSE LET r == processed_channels_data[n] IN
         IF r.selected = TRUE /\ r.xmltv_match # None
         THEN Append(WantedUpTo(n - 1), n)
         ELSE WantedUpTo(n - 1)

Wanted == WantedUpTo(Len(processed_channels_data))

\* C9: the file holds the header and then, for exactly the selected and
\* associated results in list order, a descriptor line and the entry's URL
\* line; the returned count is the number of these pairs.
C9_M3uWritesSelectedAssociated ==
    pc = "m3u_returned" =>
        /\ out_file[1] = M3uHeader
        /\ Len(out_file) = 1 + 2 * Len(Wanted)
        /\ m3u_ret = Len(Wanted)
        /\ \A r \in 1..Len(Wanted) :
              LET item == processed_channels_data[Wanted[r]] IN
              /\ out_file[2 * r + 1] = item.m3u_data.url
              /\ out_file[2 * r][1] = H
              /\ AttrValue(out_file[2 * r], GRK) = item.m3u_data.group_title

\* a finished run over a selected unassociated result, an associated
\* unselected result and a written one behind them
C9_Witness ==
    /\ pc = "m3u_returned"
    /\ m3u_ret = 1
    /\ \E a, b, c \in 1..Len(processed_channels_data) :
          /\ a < c /\ b < c
          /\ processed_channels_data[a].selected
          /\ processed_channels_data[a].xmltv_match = None
          /\ ~processed_channels_data[b].selected
          /\ processed_channels_data[b].xmltv_match # None
          /\ Wanted = <<c>>

\* the descriptor carries an identifier attribute, empty or not
HasIdAttr(d) == \E p \in 1..Len(d) : d[p] = IDK

\* the text behind the last comma of a line
TextAfterFinalComma(d) == SubSeq(d, RFindComma(d) + 1, Len(d))

\* C10: for every written result whose original descriptor has no
\* identifier attribute, the written descriptor holds exactly one
\* identifier attribute, its value is the matched channel's identifier,
\* the text after the final comma is the matched channel's primary display
\* name, and the other attributes are those of the original.
C10_InsertedIdentifier ==
    pc = "m3u_returned" =>
        \A r \in 1..Len(Wanted) :
            LET item == processed_channels_data[Wanted[r]]
                orig == item.m3u_data.original_extinf
                line == out_file[2 * r]
            IN ~HasIdAttr(orig) =>
                  /\ Cardinality({p \in 1..Len(line) : line[p] = IDK}) = 1
                  /\ Contains(line, IdAttr(item.xmltv_match.id))
                  /\ TextAfterFinalComma(line) = item.xmltv_match.display_name
                  /\ AttrValue(line, GRK) = AttrValue(orig, GRK)
                  /\ AttrValue(line, NMK) = AttrValue(orig, NMK)
                  /\ AttrValue(line, LGK) = AttrValue(orig, LGK)

\* the descriptor with the value of its identifier attribute replaced by id
\* and the text behind its last comma replaced by name, nothing else touched
WithIdAndName(d, id, name) ==
    LET p == CHOOSE x \in 1..Len(d) : d[x] = IDK /\ \A y \in 1..(x - 1) : d[y] # IDK
        q == CHOOSE x \in (p + 1)..Len(d) : d[x] = Q /\ \A y \in (p + 1)..(x - 1) : d[y] # Q
    IN SubSeq(d, 1, p) \o id \o SubSeq(d, q, RFindComma(d)) \o name

\* C11: for every written result whose original descriptor already has an
\* identifier attribute (an empty value included), the written descriptor
\* is the original with that attribute's value replaced by the matched
\* identifier and the text after the final comma replaced by the matched
\* display name; the duration field and the group, logo and name
\* attributes are those of the original.
C11_ReplacedIdentifier ==
    pc = "m3u_returned" =>
        \A r \in 1..Len(Wanted) :
            LET item == processed_channels_data[Wanted[r]]
                orig == item.m3u_data.original_extinf
                line == out_file[2 * r]
            IN HasIdAttr(orig) =>
                  /\ line = WithIdAndName(orig, item.xmltv_match.id,
                                          item.xmltv_match.display_name)
                  /\ Cardinality({p \in 1..Len(line) : line[p] = IDK}) = 1
                  /\ AttrValue(line, IDK) = item.xmltv_match.id
                  /\ SubSeq(line, 1, 2) = SubSeq(orig, 1, 2)
                  /\ AttrValue(line, GRK) = AttrValue(orig, GRK)
                  /\ AttrValue(line, NMK) = AttrValue(orig, NMK)
                  /\ AttrValue(line, LGK) = AttrValue(orig, LGK)

\* a written result whose descriptor had an empty identifier attribute and
\* one whose descriptor had another identifier than the matched one
C11_Witness ==
    /\ pc = "m3u_returned"
    /\ \E a, b \in 1..Len(Wanted) :
          /\ processed_channels_data[Wanted[a]].m3u_data.original_extinf = D_emptyid
          /\ processed_channels_data[Wanted[b]].m3u_data.original_extinf = D_id
          /\ processed_channels_data[Wanted[b]].xmltv_match.id # <<"x">>
          /\ Contains(out_file[2 * a], IdAttr(processed_channels_data[Wanted[a]].xmltv_match.id))

-----------------------------------------------------------------------------
(* generate_xmltv: guide sources, wanted set, captured subtrees *)

\* most guide source files in the folder
MaxSources == 2
\* longest MatchResult list handed to generate_xmltv
MaxSelections == 2

\* A guide source file: the identifiers of its channel subtrees, the channel
\* identifiers of its programme entries, and how it reads:
\*   "ok"         the document is well formed
\*   "truncated"  the structure breaks behind the first `cut` programme
\*                entries: ET.parse raises, ET.iterparse delivers those
\*                entries and then raises ET.ParseError
\*   "unreadable" opening or reading it raises an OSError (a directory, a
\*                file without read permission, a .gz that is no gzip)
File_a == [channels   |-> << <<"x">>, <<"y">> >>,
           programmes |-> << <<"x">>, <<"w">>, <<"y">> >>,
           state |-> "ok", cut |-> 0]
\* repeats the identifier y of File_a, holds a channel without identifier
\* and a programme of a channel no source describes
File_b == [channels   |-> << <<"y">>, <<>> >>,
           programmes |-> << <<"y">>, <<"v">> >>,
           state |-> "ok", cut |-> 0]
File_t == [channels   |-> << <<"x">> >>,
           programmes |-> << <<"x">>, <<"y">> >>,
           state |-> "truncated", cut |-> 1]
File_u == [channels |-> <<>>, programmes |-> <<>>, state |-> "unreadable", cut |-> 0]

SourceFiles == {File_a, File_b, File_t, File_u}
GuideFolders == SeqsUpTo(SourceFiles, MaxSources)

\* the subtree object the parse of file number f yields for its k-th channel
FreshElement(f, k) == [parsed_from |-> f, pos |-> k]

\* lines 51-73 on file number f: one record per channel subtree (the
\* caller only uses it on files that ET.parse accepts)
ParsedChannels(file, f) ==
    [k \in 1..Len(file.channels) |->
        [id |-> file.channels[k], element |-> FreshElement(f, k)]]

RECURSIVE AllSourceChannels(_, _)
\* lines 260-264: the channels of the first n files, a file whose parse
\* raises contributing nothing
AllSourceChannels(files, n) ==
    IF n = 0 THEN <<>>
    ELSE AllSourceChannels(files, n - 1) \o
         (IF files[n].state = "ok" THEN ParsedChannels(files[n], n) ELSE <<>>)

\* line 266: {ch['id']: ch['element'] for ch in ... if ch.get('id')}, a later
\* channel replacing an earlier one of the same identifier
FullChannelDataMap(chs) ==
    [id \in {chs[k].id : k \in 1..Len(chs)} \ {<<>>} |->
        chs[CHOOSE k \in 1..Len(chs) :
                /\ chs[k].id = id
                /\ \A j \in (k + 1)..Len(chs) : chs[j].id # id].element]

\* lines 268-271: the identifiers the results ask for
CollectedIds(results) ==
    {results[k].xmltv_match.id :
        k \in {j \in 1..Len(results) :
                 /\ results[j].selected
                 /\ results[j].xmltv_match # None
                 /\ results[j].xmltv_match.id # <<>>}}

StaleElements(results, map) ==
    [id \in CollectedIds(results) |->
        (CHOOSE it \in Range(results) :
            it.selected /\ it.xmltv_match # None /\ it.xmltv_match.id = id).xmltv_match.element]

\* lines 272-275: the subtree captured for each wanted identifier that the
\* fresh parse knows
CapturedElements(results, map) ==
    [id \in CollectedIds(results) \cap DOMAIN map |-> map[id]]

\* code points of the characters identifiers are made of, in ascending order
IdChars == <<"v", "w", "x", "y">>
CodePoint(c) == CHOOSE k \in 1..Len(IdChars) : IdChars[k] = c

RECURSIVE StrLess(_, _)
\* Python's < on str
StrLess(a, b) ==
    IF b = <<>> THEN FALSE
    ELSE IF a = <<>> THEN TRUE
    ELSE IF Head(a) # Head(b) THEN CodePoint(Head(a)) < CodePoint(Head(b))
    ELSE StrLess(Tail(a), Tail(b))

RECURSIVE Descending(_)
Descending(S) ==
    IF S = {} THEN <<>>
    ELSE LET m == CHOOSE x \in S : \A y \in S \ {x} : StrLess(y, x)
         IN <<m>> \o Descending(S \ {m})

RECURSIVE Sorted(_)
\* line 293: sorted(channel_elements_to_write.keys())
Sorted(S) ==
    IF S = {} THEN <<>>
    ELSE LET m == CHOOSE x \in S : \A y \in S \ {x} : StrLess(x, y)
         IN <<m>> \o Sorted(S \ {m})

\* what xf.write puts into the document
ChannelEntry(id, element) == [kind |-> "channel", id |-> id, element |-> element]
ProgrammeEntry(f, k, channel) ==
    [kind |-> "programme", channel |-> channel, parsed_from |-> f, pos |-> k]

\* lines 292-294: the captured subtrees in the order they are written
WrittenChannels(elements) ==
    LET ids == Sorted(DOMAIN elements)
    IN [k \in 1..Len(ids) |-> ChannelEntry(ids[k], elements[ids[k]])]

\* the programme entries ET.iterparse delivers for a file before it ends or
\* raises
Delivered(file) ==
    IF file.state = "ok" THEN Len(file.programmes)
    ELSE IF file.state = "truncated" THEN file.cut
    ELSE 0

CapturedOnly(channel, wanted, elements) == channel \in DOMAIN elements

\* line 304: elem.get('channel') in selected_channel_ids
ProgrammeWanted(channel, wanted, elements) == channel \in wanted

\* lines 303-306 on file number f: the entries written for it
WrittenProgrammes(file, f, wanted, elements) ==
    LET kept == SelectSeq([k \in 1..Delivered(file) |-> k],
                          LAMBDA k : ProgrammeWanted(file.programmes[k], wanted, elements))
    IN [n \in 1..Len(kept) |-> ProgrammeEntry(f, kept[n], file.programmes[kept[n]])]

-----------------------------------------------------------------------------
(* generate_xmltv as a process *)

\* associations as the results may carry them: the in-memory subtree of the
\* load-time parse (a number, as in GuideOf), or none after a session restore
\* (app.py lines 852-858)
A_x       == [id |-> <<"x">>, display_name |-> <<"a", "b">>, element |-> 1]
A_y       == [id |-> <<"y">>, display_name |-> <<"A", CM, "b">>, element |-> 2]
\* restored, the identifier is known to the sources
A_x_restored == [id |-> <<"x">>, display_name |-> <<"c", "d">>, element |-> None]
\* restored, no source has a channel of this identifier
A_v_restored == [id |-> <<"v">>, display_name |-> <<"v">>, element |-> None]
\* a guide channel without identifier, matched by name
A_noid    == [id |-> <<>>, display_name |-> <<"a", "b">>, element |-> 1]

XmltvAssociations == {None, A_x, A_y, A_x_restored, A_v_restored, A_noid}

\* the results generate_xmltv is called with
XmltvResults ==
    {[m3u_data |-> parse_m3u(D_plain, UrlOf(D_plain)), xmltv_match |-> a,
      score |-> IF a = None THEN 0 ELSE 100, selected |-> TRUE] :
        a \in XmltvAssociations}
    \cup
    {[m3u_data |-> parse_m3u(D_id, UrlOf(D_id)), xmltv_match |-> A_x,
      score |-> 70, selected |-> FALSE]}

\* the file at the output path before the call
OutMissing == [exists |-> FALSE, open |-> FALSE, complete |-> FALSE, doc |-> <<>>]
OutOld     == [exists |-> TRUE, open |-> FALSE, complete |-> TRUE,
               doc |-> <<[kind |-> "old"]>>]

InitXmltv ==
    /\ processed_channels_data \in SeqsUpTo(XmltvResults, MaxSelections)
    /\ xmltv_files \in GuideFolders
    /\ xmltv_out \in {OutMissing, OutOld}
    /\ selected_channel_ids = {}
    /\ channel_elements_to_write = <<>>
    /\ program_count = 0
    /\ xmltv_ret = NotReturned
    /\ pc = "xmltv_called"
    /\ i = 0
    /\ m3u_channels = <<>>
    /\ xmltv_channels = <<>>
    /\ threshold = 0
    /\ preserve_existing = FALSE
    /\ cb_supplied = FALSE
    /\ indices = NotBuilt
    /\ examined = 0
    /\ cb_log = <<>>
    /\ cb_active = 0
    /\ cb_seen = <<>>
    /\ rule_log = <<>>
    /\ match_ret = NotReturned
    /\ out_file = NotOpened
    /\ count = 0
    /\ m3u_ret = NotReturned
    /\ DownloadIdle
    /\ NormalizeIdle
    /\ AppIdle

\* what no step of generate_xmltv touches
xmltv_frame == <<inputs, processed_channels_data, auto_match_vars, gen_vars,
                 xmltv_files, dl_vars, norm_vars, app_vars>>

\* lines 254-275, pass 1: the sources are parsed anew, the wanted set and
\* the subtrees to write are collected
XmltvCollect ==
    /\ pc = "xmltv_called"
    /\ selected_channel_ids' = CollectedIds(processed_channels_data)
    /\ channel_elements_to_write' =
          CapturedElements(processed_channels_data,
              FullChannelDataMap(AllSourceChannels(xmltv_files, Len(xmltv_files))))
    /\ pc' = "xmltv_collected"
    /\ UNCHANGED <<xmltv_frame, i, program_count, xmltv_out, xmltv_ret>>

XmltvAbortAfterOpen ==
    /\ pc = "xmltv_collected"
    /\ selected_channel_ids = {}
    /\ xmltv_out' = [exists |-> TRUE, open |-> FALSE, complete |-> FALSE, doc |-> <<>>]
    /\ xmltv_ret' = <<0, 0>>
    /\ pc' = "xmltv_returned"
    /\ UNCHANGED <<xmltv_frame, i, selected_channel_ids, channel_elements_to_write,
                   program_count>>

\* lines 277-279: nothing is wanted
XmltvAbort ==
    /\ pc = "xmltv_collected"
    /\ selected_channel_ids = {}
    /\ xmltv_ret' = <<0, 0>>
    /\ pc' = "xmltv_returned"
    /\ UNCHANGED <<xmltv_frame, i, selected_channel_ids, channel_elements_to_write,
                   program_count, xmltv_out>>

\* lines 284-294: the output is opened for writing (an existing file is
\* emptied), the root is started and the captured subtrees are written
XmltvOpen ==
    /\ pc = "xmltv_collected"
    /\ selected_channel_ids # {}
    /\ program_count' = 0
    /\ xmltv_out' = [exists |-> TRUE, open |-> TRUE, complete |-> FALSE,
                     doc |-> WrittenChannels(channel_elements_to_write)]
    /\ i' = 0
    /\ pc' = "xmltv_stream"
    /\ UNCHANGED <<xmltv_frame, selected_channel_ids, channel_elements_to_write,
                   xmltv_ret>>

\* lines 287-288, 316-318: the output path cannot be opened, the OSError
\* reaches the outer handler
XmltvOpenFails ==
    /\ pc = "xmltv_collected"
    /\ selected_channel_ids # {}
    /\ program_count' = 0
    /\ xmltv_ret' = <<0, 0>>
    /\ pc' = "xmltv_returned"
    /\ UNCHANGED <<xmltv_frame, i, selected_channel_ids, channel_elements_to_write,
                   xmltv_out>>

\* lines 298-307 for a source that streams to its end
XmltvStreamFile ==
    /\ pc = "xmltv_stream"
    /\ i < Len(xmltv_files)
    /\ xmltv_files[i + 1].state = "ok"
    /\ LET written == WrittenProgrammes(xmltv_files[i + 1], i + 1,
                                        selected_channel_ids, channel_elements_to_write)
       IN /\ xmltv_out' = [xmltv_out EXCEPT !.doc = @ \o written]
          /\ program_count' = program_count + Len(written)
    /\ i' = i + 1
    /\ UNCHANGED <<xmltv_frame, pc, selected_channel_ids, channel_elements_to_write,
                   xmltv_ret>>

XmltvParseErrorIsFatal ==
    /\ pc = "xmltv_stream"
    /\ i < Len(xmltv_files)
    /\ xmltv_files[i + 1].state = "truncated"
    /\ xmltv_out' = [xmltv_out EXCEPT !.open = FALSE]
    /\ xmltv_ret' = <<0, 0>>
    /\ pc' = "xmltv_returned"
    /\ UNCHANGED <<xmltv_frame, i, selected_channel_ids, channel_elements_to_write,
                   program_count>>

\* lines 298-309 for a source whose structure breaks: the entries delivered
\* before the break are written, ET.ParseError is caught and logged, the
\* loop goes on with the next file
XmltvStreamParseError ==
    /\ pc = "xmltv_stream"
    /\ i < Len(xmltv_files)
    /\ xmltv_files[i + 1].state = "truncated"
    /\ LET written == WrittenProgrammes(xmltv_files[i + 1], i + 1,
                                        selected_channel_ids, channel_elements_to_write)
       IN /\ xmltv_out' = [xmltv_out EXCEPT !.doc = @ \o written]
          /\ program_count' = program_count + Len(written)
    /\ i' = i + 1
    /\ UNCHANGED <<xmltv_frame, pc, selected_channel_ids, channel_elements_to_write,
                   xmltv_ret>>

\* lines 300-302, 316-318 for a source that cannot be read: the OSError is
\* no ET.ParseError, it leaves both loops and both with-blocks (the output
\* is closed as it stands) and the outer handler returns (0, 0)
XmltvStreamFails ==
    /\ pc = "xmltv_stream"
    /\ i < Len(xmltv_files)
    /\ xmltv_files[i + 1].state = "unreadable"
    /\ xmltv_out' = [xmltv_out EXCEPT !.open = FALSE]
    /\ xmltv_ret' = <<0, 0>>
    /\ pc' = "xmltv_returned"
    /\ UNCHANGED <<xmltv_frame, i, selected_channel_ids, channel_elements_to_write,
                   program_count>>

XmltvReturnCountsResults ==
    /\ pc = "xmltv_stream"
    /\ i = Len(xmltv_files)
    /\ xmltv_out' = [xmltv_out EXCEPT !.open = FALSE, !.complete = TRUE]
    /\ xmltv_ret' =
          <<Cardinality({k \in 1..Len(processed_channels_data) :
                /\ processed_channels_data[k].selected
                /\ processed_channels_data[k].xmltv_match # None
                /\ processed_channels_data[k].xmltv_match.id
                       \in DOMAIN channel_elements_to_write}),
            program_count>>
    /\ pc' = "xmltv_returned"
    /\ UNCHANGED <<xmltv_frame, i, selected_channel_ids, channel_elements_to_write,
                   program_count>>

\* lines 290-314: after the last source the root is closed, the file is
\* closed and the counts are returned
XmltvReturn ==
    /\ pc = "xmltv_stream"
    /\ i = Len(xmltv_files)
    /\ xmltv_out' = [xmltv_out EXCEPT !.open = FALSE, !.complete = TRUE]
    /\ xmltv_ret' = <<Cardinality(DOMAIN channel_elements_to_write), program_count>>
    /\ pc' = "xmltv_returned"
    /\ UNCHANGED <<xmltv_frame, i, selected_channel_ids, channel_elements_to_write,
                   program_count>>

NextXmltv ==
    \/ XmltvCollect
    \/ XmltvAbort
    \/ XmltvOpen
    \/ XmltvOpenFails
    \/ XmltvStreamFile
    \/ XmltvStreamParseError
    \/ XmltvStreamFails
    \/ XmltvReturn

SpecXmltv == InitXmltv /\ [][NextXmltv]_vars

-----------------------------------------------------------------------------
(* Properties of generate_xmltv, checked under SpecXmltv *)

\* what the results ask for: selected flag and associated identifier
Projection(results) ==
    [k \in 1..Len(results) |->
        [selected |-> results[k].selected,
         id |-> IF results[k].xmltv_match = None THEN <<>>
                ELSE results[k].xmltv_match.id]]

\* the wanted set a projection stands for
WantedOf(proj) ==
    {id \in {proj[k].id : k \in 1..Len(proj)} :
        id # <<>> /\ \E k \in 1..Len(proj) : proj[k].selected /\ proj[k].id = id}

XmltvWantedSet == WantedOf(Projection(processed_channels_data))

\* the channel and the programme entries of a document
ChannelsOf(doc) == SelectSeq(doc, LAMBDA e : e.kind = "channel")
ProgrammesOf(doc) == SelectSeq(doc, LAMBDA e : e.kind = "programme")

\* the call returned because the output path could not be opened
XmltvOpenFailed ==
    /\ pc = "xmltv_returned"
    /\ XmltvWantedSet # {}
    /\ xmltv_out \in {OutMissing, OutOld}

\* C12: if no result is selected, associated and carries a non-empty
\* identifier, no step of generate_xmltv changes the file at the output
\* path (an existing one keeps its content, a missing one stays missing)
\* and the call returns (0, 0).
C12_NothingWantedNothingWritten ==
    [][(\A k \in 1..Len(processed_channels_data) :
            ~(/\ processed_channels_data[k].selected
              /\ processed_channels_data[k].xmltv_match # None
              /\ processed_channels_data[k].xmltv_match.id # <<>>))
        => /\ xmltv_out' = xmltv_out
           /\ pc' = "xmltv_returned" => xmltv_ret' = <<0, 0>>]_vars

\* the call returned on an existing output with a selected result whose
\* association has no identifier, and with a source that has channels
C12_Witness ==
    /\ pc = "xmltv_returned"
    /\ XmltvWantedSet = {}
    /\ xmltv_out = OutOld
    /\ xmltv_ret = <<0, 0>>
    /\ \E k \in 1..Len(processed_channels_data) :
          /\ processed_channels_data[k].selected
          /\ processed_channels_data[k].xmltv_match = A_noid
    /\ \E f \in 1..Len(xmltv_files) : xmltv_files[f] = File_a

\* C13: in the document generate_xmltv writes, the channel subtrees stand in
\* strictly ascending identifier order and no channel subtree stands behind
\* a programme entry.
C13_ChannelsSortedBeforeProgrammes ==
    \A a, b \in 1..Len(xmltv_out.doc) :
        a < b =>
            /\ xmltv_out.doc[a].kind = "channel" /\ xmltv_out.doc[b].kind = "channel"
                  => StrLess(xmltv_out.doc[a].id, xmltv_out.doc[b].id)
            /\ xmltv_out.doc[a].kind = "programme" => xmltv_out.doc[b].kind # "channel"

\* two subtrees and a programme entry were written although the results
\* name the later identifier first and the sources list it first
C13_Witness ==
    /\ pc = "xmltv_returned"
    /\ Len(ChannelsOf(xmltv_out.doc)) = 2
    /\ Len(ProgrammesOf(xmltv_out.doc)) > 0
    /\ Len(processed_channels_data) = 2
    /\ processed_channels_data[1].xmltv_match = A_y
    /\ processed_channels_data[2].xmltv_match = A_x
    /\ xmltv_files = <<File_b, File_a>>

RECURSIVE SourceProgrammes(_, _, _)
\* the programme entries of the first n source files whose channel is in W,
\* in file order then in-file order
SourceProgrammes(files, n, W) ==
    IF n = 0 THEN <<>>
    ELSE SourceProgrammes(files, n - 1, W) \o
         LET ks == SelectSeq([k \in 1..Len(files[n].programmes) |-> k],
                             LAMBDA k : files[n].programmes[k] \in W)
         IN [m \in 1..Len(ks) |-> ProgrammeEntry(n, ks[m], files[n].programmes[ks[m]])]

\* C14: when every source file parses and the document has been written,
\* its programme entries are exactly the source programme entries whose
\* channel identifier is in the wanted set, each once, in source-file order
\* then in-file order.
C14_ExactlyWantedProgrammes ==
    /\ pc = "xmltv_returned"
    /\ ~XmltvOpenFailed
    /\ \A f \in 1..Len(xmltv_files) : xmltv_files[f].state = "ok"
    => ProgrammesOf(xmltv_out.doc) =
           SourceProgrammes(xmltv_files, Len(xmltv_files), XmltvWantedSet)

\* two sources, programmes of wanted and of unwanted channels in both, one
\* wanted channel that no source describes
C14_Witness ==
    /\ pc = "xmltv_returned"
    /\ xmltv_files = <<File_b, File_a>>
    /\ XmltvWantedSet = {<<"v">>, <<"x">>}
    /\ Len(ProgrammesOf(xmltv_out.doc)) = 2

\* C15: on every return path the returned pair is (number of channel
\* subtrees in the output, number of programme entries in the output).
C15_ReturnedCountsAreWritten ==
    pc = "xmltv_returned" =>
        xmltv_ret = <<Len(ChannelsOf(xmltv_out.doc)), Len(ProgrammesOf(xmltv_out.doc))>>

\* C16: when the output was opened, a source breaks part-way in the
\* streaming pass and no source is unreadable, the call ends with the
\* wanted programme entries of every later well-formed source written, the
\* document completed and closed, and the pair of written counts returned.
C16_ParseErrorSkipsFile ==
    \A f \in 1..Len(xmltv_files) :
        /\ pc = "xmltv_returned"
        /\ XmltvWantedSet # {}
        /\ ~XmltvOpenFailed
        /\ xmltv_files[f].state = "truncated"
        /\ \A g \in 1..Len(xmltv_files) : xmltv_files[g].state # "unreadable"
        => /\ xmltv_out.complete /\ ~xmltv_out.open /\ xmltv_out.exists
           /\ xmltv_ret = <<Len(ChannelsOf(xmltv_out.doc)),
                            Len(ProgrammesOf(xmltv_out.doc))>>
           /\ \A g \in (f + 1)..Len(xmltv_files) :
                 xmltv_files[g].state = "ok" =>
                    \A k \in 1..Len(xmltv_files[g].programmes) :
                        xmltv_files[g].programmes[k] \in XmltvWantedSet =>
                            Cardinality({n \in 1..Len(xmltv_out.doc) :
                                xmltv_out.doc[n] =
                                    ProgrammeEntry(g, k, xmltv_files[g].programmes[k])}) = 1

\* the first source broke, the second one had wanted programmes
C16_Witness ==
    /\ pc = "xmltv_returned"
    /\ xmltv_files = <<File_t, File_a>>
    /\ XmltvWantedSet = {<<"x">>, <<"y">>}
    /\ xmltv_ret = <<2, 3>>
    /\ xmltv_out.complete

\* the subtree of the last well-formed source channel carrying id
FreshSubtree(files, id) ==
    LET carriers == {c \in UNION {{<<f, k>> : k \in 1..Len(files[f].channels)} :
                                      f \in 1..Len(files)} :
                        /\ files[c[1]].state = "ok"
                        /\ files[c[1]].channels[c[2]] = id}
        last == CHOOSE c \in carriers :
                    \A d \in carriers : d[1] < c[1] \/ (d[1] = c[1] /\ d[2] <= c[2])
    IN FreshElement(last[1], last[2])

\* the identifiers of W that a well-formed source describes
Described(files, W) ==
    {id \in W : \E f \in 1..Len(files) :
        files[f].state = "ok" /\ id \in Range(files[f].channels)}

\* the sources in front of the first unreadable one
Readable(files) ==
    SubSeq(files, 1,
           IF \E f \in 1..Len(files) : files[f].state = "unreadable"
           THEN (CHOOSE f \in 1..Len(files) :
                    /\ files[f].state = "unreadable"
                    /\ \A g \in 1..(f - 1) : files[g].state # "unreadable") - 1
           ELSE Len(files))

RECURSIVE DeliveredProgrammes(_, _, _)
DeliveredProgrammes(files, n, W) ==
    IF n = 0 THEN <<>>
    ELSE DeliveredProgrammes(files, n - 1, W) \o
         LET ks == SelectSeq([k \in 1..Delivered(files[n]) |-> k],
                             LAMBDA k : files[n].programmes[k] \in W)
         IN [m \in 1..Len(ks) |-> ProgrammeEntry(n, ks[m], files[n].programmes[ks[m]])]

\* the document and the counts as the sources and a projection determine them
DocumentFor(files, proj) ==
    LET ids == Sorted(Described(files, WantedOf(proj)))
    IN [k \in 1..Len(ids) |-> ChannelEntry(ids[k], FreshSubtree(files, ids[k]))]
       \o DeliveredProgrammes(Readable(files), Len(Readable(files)), WantedOf(proj))

CountsFor(files, proj) ==
    IF WantedOf(proj) = {} \/ Readable(files) # files THEN <<0, 0>>
    ELSE <<Cardinality(Described(files, WantedOf(proj))),
           Len(DeliveredProgrammes(files, Len(files), WantedOf(proj)))>>

\* C17: when generate_xmltv has returned after opening its output, the
\* document and the returned counts are those the source files and the
\* results' selected flags and associated identifiers determine; every
\* channel subtree in the document is one of the fresh parse. Two result
\* lists with the same flags and identifiers hence give the same document
\* and the same counts.
C17_OnlyFreshSubtrees ==
    /\ pc = "xmltv_returned"
    /\ XmltvWantedSet # {}
    /\ ~XmltvOpenFailed
    => /\ xmltv_out.doc = DocumentFor(xmltv_files, Projection(processed_channels_data))
       /\ xmltv_ret = CountsFor(xmltv_files, Projection(processed_channels_data))
       /\ \A n \in 1..Len(xmltv_out.doc) :
             xmltv_out.doc[n].kind = "channel" =>
                \E f \in 1..Len(xmltv_files) :
                    \E k \in 1..Len(xmltv_files[f].channels) :
                        /\ xmltv_files[f].state = "ok"
                        /\ xmltv_files[f].channels[k] = xmltv_out.doc[n].id
                        /\ xmltv_out.doc[n].element = FreshElement(f, k)

\* a restored association without subtree and one with an in-memory subtree
\* were both written from the fresh parse
C17_Witness ==
    /\ pc = "xmltv_returned"
    /\ xmltv_out.complete
    /\ \E a, b \in 1..Len(processed_channels_data) :
          /\ processed_channels_data[a] \in XmltvResults
          /\ processed_channels_data[a].xmltv_match = A_x_restored
          /\ processed_channels_data[b].xmltv_match = A_y
    /\ Len(ChannelsOf(xmltv_out.doc)) = 2

-----------------------------------------------------------------------------
(* download_or_copy and download_sources *)

\* most sources declared in one group
MaxDeclared == 2

\* A declared source, by what lines 168-180 make of its location: a URL, an
\* existing local path, or neither. The sources of the model all have the
\* same base name.
Locations == {"http", "local", "invalid"}

\* how a fetch can end:
\*   "ok"       the content is written to the destination
\*   "refused"  requests.get, raise_for_status or shutil.copy raises before
\*              anything is written
\*   "broken"   the destination is created, iter_content raises part-way
\*   "invalid"  line 178
Outcomes(loc) ==
    IF loc = "http" THEN {"ok", "refused", "broken"}
    ELSE IF loc = "local" THEN {"ok", "refused"}
    ELSE {"invalid"}

DeclaredLists == SeqsUpTo(Locations, MaxDeclared)

\* a folder is a function from the suffix of a file name (0 for base, k for
\* base-k) to the content of that file
NoFiles == <<>>
OldFile == [by |-> <<"old", 0>>, whole |-> TRUE]
\* base exists / base and base-2 exist, base-1 was removed
OneOld == (0 :> OldFile)
OldWithGap == (0 :> OldFile) @@ (2 :> OldFile)

BasePathAlways(folder) == 0

\* lines 160-166: the suffix of the first path that does not exist, the
\* counter starting at 1
FirstFree(folder) ==
    CHOOSE k \in 0..Cardinality(DOMAIN folder) :
        k \notin DOMAIN folder /\ \A j \in 0..(k - 1) : j \in DOMAIN folder

\* lines 153-186: the folder after the call, the suffix written (-1 when
\* nothing is written) and the value returned
download_or_copy(folder, outcome, who) ==
    LET dest == FirstFree(folder) IN
    IF outcome = "ok"
    THEN [folder |-> (dest :> [by |-> who, whole |-> TRUE]) @@ folder,
          dest |-> dest, ok |-> TRUE]
    ELSE IF outcome = "broken"
    THEN [folder |-> (dest :> [by |-> who, whole |-> FALSE]) @@ folder,
          dest |-> dest, ok |-> FALSE]
    ELSE [folder |-> folder, dest |-> -1, ok |-> FALSE]

\* the entry the history keeps of a call
Attempt(group, index, folder, outcome, res) ==
    [group |-> group, index |-> index, existing |-> DOMAIN folder,
     outcome |-> outcome, dest |-> res.dest, ok |-> res.ok]

Restrict(folder, keep) == [k \in keep |-> folder[k]]

InitDownload ==
    /\ sources_data \in [M3U : DeclaredLists, EPG : DeclaredLists]
    /\ clean_folders \in BOOLEAN
    /\ folders \in [M3U : {NoFiles, OldWithGap}, EPG : {OneOld}]
    /\ download_count = 0
    /\ m3u_download_successful = FALSE
    /\ attempts = <<>>
    /\ dl_ret = NotReturned
    /\ pc = "dl_called"
    /\ i = 0
    /\ processed_channels_data = <<>>
    /\ m3u_channels = <<>>
    /\ xmltv_channels = <<>>
    /\ threshold = 0
    /\ preserve_existing = FALSE
    /\ cb_supplied = FALSE
    /\ indices = NotBuilt
    /\ examined = 0
    /\ cb_log = <<>>
    /\ cb_active = 0
    /\ cb_seen = <<>>
    /\ rule_log = <<>>
    /\ match_ret = NotReturned
    /\ out_file = NotOpened
    /\ count = 0
    /\ m3u_ret = NotReturned
    /\ XmltvIdle
    /\ NormalizeIdle
    /\ AppIdle

\* what no step of download_sources touches
dl_frame == <<inputs, processed_channels_data, auto_match_vars, gen_vars, xmltv_vars,
              sources_data, clean_folders, norm_vars, app_vars>>

\* lines 190-205, 207-208 with clean_folders set: every entry of both
\* folders is deleted, an entry whose deletion raises stays
DlClean ==
    /\ pc = "dl_called"
    /\ clean_folders
    /\ \E keep_m3u \in SUBSET DOMAIN folders.M3U, keep_epg \in SUBSET DOMAIN folders.EPG :
          folders' = [M3U |-> Restrict(folders.M3U, keep_m3u),
                      EPG |-> Restrict(folders.EPG, keep_epg)]
    /\ download_count' = 0
    /\ m3u_download_successful' = FALSE
    /\ i' = 0
    /\ pc' = "dl_m3u"
    /\ UNCHANGED <<dl_frame, attempts, dl_ret>>

\* lines 190, 207-208 without clean_folders
DlSkipClean ==
    /\ pc = "dl_called"
    /\ ~clean_folders
    /\ download_count' = 0
    /\ m3u_download_successful' = FALSE
    /\ i' = 0
    /\ pc' = "dl_m3u"
    /\ UNCHANGED <<dl_frame, folders, attempts, dl_ret>>

DlFetchM3UStopsOnFailure ==
    /\ pc = "dl_m3u"
    /\ i < Len(sources_data.M3U)
    /\ \E outcome \in Outcomes(sources_data.M3U[i + 1]) :
          LET res == download_or_copy(folders.M3U, outcome, <<"M3U", i + 1>>) IN
          /\ folders' = [folders EXCEPT !.M3U = res.folder]
          /\ attempts' = Append(attempts, Attempt("M3U", i + 1, folders.M3U, outcome, res))
          /\ m3u_download_successful' = (m3u_download_successful \/ res.ok)
          /\ download_count' = download_count + (IF res.ok THEN 1 ELSE 0)
          /\ i' = IF res.ok THEN i + 1 ELSE Len(sources_data.M3U)
    /\ UNCHANGED <<dl_frame, pc, dl_ret>>

\* lines 210-216: one playlist source
DlFetchM3U ==
    /\ pc = "dl_m3u"
    /\ i < Len(sources_data.M3U)
    /\ \E outcome \in Outcomes(sources_data.M3U[i + 1]) :
          LET res == download_or_copy(folders.M3U, outcome, <<"M3U", i + 1>>) IN
          /\ folders' = [folders EXCEPT !.M3U = res.folder]
          /\ attempts' = Append(attempts, Attempt("M3U", i + 1, folders.M3U, outcome, res))
          /\ m3u_download_successful' = (m3u_download_successful \/ res.ok)
          /\ download_count' = download_count + (IF res.ok THEN 1 ELSE 0)
    /\ i' = i + 1
    /\ UNCHANGED <<dl_frame, pc, dl_ret>>

\* line 210: the playlist loop is through
DlM3UDone ==
    /\ pc = "dl_m3u"
    /\ i = Len(sources_data.M3U)
    /\ i' = 0
    /\ pc' = "dl_epg"
    /\ UNCHANGED <<dl_frame, folders, download_count, m3u_download_successful,
                   attempts, dl_ret>>

DlFetchEPGSetsFlag ==
    /\ pc = "dl_epg"
    /\ i < Len(sources_data.EPG)
    /\ \E outcome \in Outcomes(sources_data.EPG[i + 1]) :
          LET res == download_or_copy(folders.EPG, outcome, <<"EPG", i + 1>>) IN
          /\ folders' = [folders EXCEPT !.EPG = res.folder]
          /\ attempts' = Append(attempts, Attempt("EPG", i + 1, folders.EPG, outcome, res))
          /\ m3u_download_successful' = (m3u_download_successful \/ res.ok)
          /\ download_count' = download_count + (IF res.ok THEN 1 ELSE 0)
    /\ i' = i + 1
    /\ UNCHANGED <<dl_frame, pc, dl_ret>>

\* lines 217-222: one guide source
DlFetchEPG ==
    /\ pc = "dl_epg"
    /\ i < Len(sources_data.EPG)
    /\ \E outcome \in Outcomes(sources_data.EPG[i + 1]) :
          LET res == download_or_copy(folders.EPG, outcome, <<"EPG", i + 1>>) IN
          /\ folders' = [folders EXCEPT !.EPG = res.folder]
          /\ attempts' = Append(attempts, Attempt("EPG", i + 1, folders.EPG, outcome, res))
          /\ download_count' = download_count + (IF res.ok THEN 1 ELSE 0)
    /\ i' = i + 1
    /\ UNCHANGED <<dl_frame, pc, m3u_download_successful, dl_ret>>

\* lines 217, 224
DlReturn ==
    /\ pc = "dl_epg"
    /\ i = Len(sources_data.EPG)
    /\ dl_ret' = <<m3u_download_successful, download_count>>
    /\ pc' = "dl_returned"
    /\ UNCHANGED <<dl_frame, i, folders, download_count, m3u_download_successful,
                   attempts>>

NextDownload ==
    \/ DlClean
    \/ DlSkipClean
    \/ DlFetchM3U
    \/ DlM3UDone
    \/ DlFetchEPG
    \/ DlReturn

SpecDownload == InitDownload /\ [][NextDownload]_vars

-----------------------------------------------------------------------------
(* Properties of download_sources, checked under SpecDownload *)

\* the calls of download_or_copy that ended well
Successes(group) ==
    {n \in 1..Len(attempts) : attempts[n].group = group /\ attempts[n].ok}

\* the folder a group is fetched into
FolderOf(group) == IF group = "M3U" THEN folders.M3U ELSE folders.EPG

\* C18: every call of download_or_copy that wrote a file wrote it to the
\* first of base, base-1, base-2, ... that did not exist when the call
\* looked, and that file is there ever after with the content the call gave
\* it.
C18_NeverOverwrites ==
    \A n \in 1..Len(attempts) :
        attempts[n].dest # -1 =>
            /\ attempts[n].dest \notin attempts[n].existing
            /\ \A j \in 0..(attempts[n].dest - 1) : j \in attempts[n].existing
            /\ attempts[n].dest \in DOMAIN FolderOf(attempts[n].group)
            /\ FolderOf(attempts[n].group)[attempts[n].dest].by =
                  <<attempts[n].group, attempts[n].index>>

\* two playlist sources were fetched into a folder that had base and base-2:
\* the first went to base-1, the second to base-3
C18_Witness ==
    /\ pc = "dl_returned"
    /\ Len(attempts) >= 2
    /\ attempts[1].group = "M3U" /\ attempts[1].existing = {0, 2} /\ attempts[1].dest = 1
    /\ attempts[2].group = "M3U" /\ attempts[2].dest = 3
    /\ DOMAIN folders.M3U = {0, 1, 2, 3}
    /\ folders.M3U[0] = OldFile

\* C19: the flag download_sources returns is true exactly if a playlist
\* source was fetched successfully, whatever became of the guide sources,
\* and the count it returns is the number of successful fetches of both
\* groups.
C19_FlagAndCount ==
    pc = "dl_returned" =>
        /\ dl_ret[1] = (Successes("M3U") # {})
        /\ dl_ret[2] = Cardinality(Successes("M3U")) + Cardinality(Successes("EPG"))

\* every playlist source failed, a guide source was fetched
C19_Witness ==
    /\ pc = "dl_returned"
    /\ Len(sources_data.M3U) > 0
    /\ Successes("M3U") = {}
    /\ Successes("EPG") # {}
    /\ dl_ret = <<FALSE, 1>>

\* the calls download_sources is to make, in order
Declared ==
    [n \in 1..Len(sources_data.M3U) |-> <<"M3U", n>>] \o
    [n \in 1..Len(sources_data.EPG) |-> <<"EPG", n>>]

\* C20: while download_sources runs, the calls made so far are the first of
\* the declared sources, playlist sources first, each once and in
\* declaration order; when it has returned, every declared source has been
\* attempted, whatever the outcomes. No step of the model leaves the
\* function otherwise than by its return.
C20_EverySourceAttemptedOnce ==
    /\ Len(attempts) <= Len(Declared)
    /\ \A n \in 1..Len(attempts) : <<attempts[n].group, attempts[n].index>> = Declared[n]
    /\ pc = "dl_returned" =>
          /\ Len(attempts) = Len(Declared)
          /\ dl_ret # NotReturned

\* the first source of each group failed and the second was fetched
C20_Witness ==
    /\ pc = "dl_returned"
    /\ Len(attempts) = 4
    /\ ~attempts[1].ok /\ attempts[1].outcome = "invalid"
    /\ attempts[2].ok
    /\ ~attempts[3].ok /\ attempts[3].outcome = "broken"
    /\ attempts[4].ok

-----------------------------------------------------------------------------
(* Further properties of auto_match_channels, checked under Spec *)

\* the words of length > 1 of a normalized name
LongWords(name) == {t \in Range(SplitWords(normalize_name(name))) : Len(t) > 1}

\* the fuzzy pool of an entry, stated on the catalog itself: the primary
\* names sharing a word of length > 1 with the entry's name, or else all
\* primary names
PoolOf(m3u_channel) ==
    LET sharing == {xmltv_channels[p].display_name :
                       p \in {q \in 1..Len(xmltv_channels) :
                                 LongWords(xmltv_channels[q].display_name)
                                    \cap LongWords(m3u_channel.name) # {}}}
    IN IF sharing # {} THEN sharing
       ELSE {xmltv_channels[p].display_name : p \in 1..Len(xmltv_channels)}

\* C25: for every entry neither the identifier rule nor the exact-name rule
\* applies to, the result's score is the greatest similarity over the
\* entry's pool and its association is a guide channel whose primary display
\* name is in the pool and has that similarity.
C25_FuzzyPoolAndBest ==
    \A k \in 1..Len(processed_channels_data) :
        LET r == processed_channels_data[k]
            e == m3u_channels[k]
        IN (~HintHonoured(e) /\ NamesakesOf(e) = {}) =>
              /\ \E nm \in PoolOf(e) : Score(e.name, nm) = r.score
              /\ \A nm \in PoolOf(e) : Score(e.name, nm) <= r.score
              /\ r.xmltv_match # None
              /\ r.xmltv_match.display_name \in PoolOf(e)
              /\ Score(e.name, r.xmltv_match.display_name) = r.score

\* C28: with a non-empty guide catalog every result carries an association;
\* in any case a result without association has score 0 and a selected
\* result of the matcher has an association.
C28_AlwaysAssociated ==
    \A k \in 1..Len(processed_channels_data) :
        LET r == processed_channels_data[k] IN
        /\ xmltv_channels # <<>> => r.xmltv_match # None
        /\ r.xmltv_match = None => r.score = 0
        /\ r.selected => r.xmltv_match # None

\* a fuzzy result with no similarity at all, from the fallback pool, still
\* associated, next to one that is selected
C28_Witness ==
    /\ pc = "returned"
    /\ \E k \in 1..Len(processed_channels_data) :
          /\ rule_log[k] = "fuzzy"
          /\ LongWords(m3u_channels[k].name) \cap
                UNION {LongWords(xmltv_channels[p].display_name) :
                          p \in 1..Len(xmltv_channels)} = {}
          /\ processed_channels_data[k].score = 0
          /\ processed_channels_data[k].xmltv_match # None
          /\ ~processed_channels_data[k].selected
    /\ \E k \in 1..Len(processed_channels_data) : processed_channels_data[k].selected

\* identifier hints an entry may carry instead of its own
HintValues == {<<>>, <<"x">>, <<"q">>}

\* a hint the identifier rule cannot act on
Inert(hint) ==
    \/ ~preserve_existing
    \/ Strip(hint) = <<>>
    \/ \A p \in 1..Len(xmltv_channels) : xmltv_channels[p].id # Strip(hint)

\* association, score and flag the matcher can return for an entry that
\* carries hint in place of its own (on the indices the call has built)
ResultsWithHint(m3u_channel, hint) ==
    {[xmltv_match |-> o.xmltv_match, score |-> o.score,
      selected |-> SelectedAtCreation(o.score, threshold)] :
        o \in MatchOutcomes([m3u_channel EXCEPT !.tvg_id = hint], xmltv_channels,
                            indices, preserve_existing)}

\* C29: with preserve_existing unset, or for hints that are empty or carried
\* by no guide channel, what the matcher has returned for an entry is what
\* it returns for the same entry under any other such hint: association,
\* score and selected flag do not depend on the hint.
C29_HintsWithoutInfluence ==
    pc = "returned" =>
    \A k \in 1..Len(processed_channels_data) :
        LET r == processed_channels_data[k]
            e == m3u_channels[k]
            own == ResultsWithHint(e, e.tvg_id)
        IN Inert(e.tvg_id) =>
              /\ [xmltv_match |-> r.xmltv_match, score |-> r.score,
                  selected |-> r.selected] \in own
              /\ \A hint \in {h \in HintValues \ {e.tvg_id} : Inert(h)} :
                    ResultsWithHint(e, hint) = own

\* preserve_existing unset: an entry whose hint is carried by a guide
\* channel was associated with another channel
C29_Witness ==
    /\ ~preserve_existing
    /\ \E k \in 1..Len(processed_channels_data) :
          /\ CarriersOf(m3u_channels[k]) # {}
          /\ Strip(m3u_channels[k].tvg_id) # <<>>
          /\ processed_channels_data[k].xmltv_match # None
          /\ processed_channels_data[k].xmltv_match.id # Strip(m3u_channels[k].tvg_id)

-----------------------------------------------------------------------------
(* Further properties of generate_xmltv, checked under SpecXmltv *)

\* C27: when generate_xmltv has run pass 2 to its end, the identifiers of
\* the channel subtrees it wrote are exactly the wanted identifiers that a
\* well-formed source describes, each written once, and the returned
\* channel count is the number of these identifiers, however many selected
\* results share one of them.
C27_OneSubtreePerIdentifier ==
    (pc = "xmltv_returned" /\ xmltv_out.complete /\ xmltv_out # OutOld) =>
        LET chans == ChannelsOf(xmltv_out.doc) IN
        /\ {chans[n].id : n \in 1..Len(chans)} = Described(xmltv_files, XmltvWantedSet)
        /\ \A a, b \in 1..Len(chans) : chans[a].id = chans[b].id => a = b
        /\ xmltv_ret[1] = Cardinality(Described(xmltv_files, XmltvWantedSet))

\* two selected results share the guide channel x
C27_Witness ==
    /\ pc = "xmltv_returned"
    /\ xmltv_out.complete
    /\ Len(processed_channels_data) = 2
    /\ processed_channels_data[1].xmltv_match = A_x
    /\ processed_channels_data[2].xmltv_match = A_x_restored
    /\ xmltv_ret[1] = 1

\* C30: every programme entry in the document generate_xmltv writes names a
\* channel whose subtree is in the same document.
C30_ProgrammesHaveChannels ==
    (pc = "xmltv_returned" /\ xmltv_out.complete) =>
    \A n \in 1..Len(xmltv_out.doc) :
        xmltv_out.doc[n].kind = "programme" =>
            \E m \in 1..Len(xmltv_out.doc) :
                /\ xmltv_out.doc[m].kind = "channel"
                /\ xmltv_out.doc[m].id = xmltv_out.doc[n].channel

-----------------------------------------------------------------------------
(* normalize_name as a function of arbitrary strings *)

\* longest string handed to normalize_name
MaxNameLen == 3

\* one representative of every class of character normalize_name tells
\* apart: lower- and upper-case ASCII letters, a digit, two kinds of
\* whitespace, ASCII punctuation, a non-ASCII letter in both cases, and a
\* non-ASCII character whose lower-case form is an ASCII letter
NameChars == {"a", "A", "k", "1", SP, TAB, HY, EACUTE, eacute, KELVIN}

NameStrings == SeqsUpTo(NameChars, MaxNameLen)

\* the same letter in the other case
OtherCase(ch) ==
    CASE ch = "a" -> {"A"}
      [] ch = "A" -> {"a"}
      [] ch = "k" -> {KELVIN}
      [] ch = KELVIN -> {"k"}
      [] ch = EACUTE -> {eacute}
      [] ch = eacute -> {EACUTE}
      [] OTHER -> {}

RemoveAt(s, p) == SubSeq(s, 1, p - 1) \o SubSeq(s, p + 1, Len(s))

\* s with the case of one letter changed
CaseVariants(s) ==
    UNION {{[s EXCEPT ![p] = c] : c \in OtherCase(s[p])} : p \in 1..Len(s)}

\* the character at p stands directly between two words with no whitespace
\* beside it
SoleSeparator(s, p) ==
    /\ 1 < p /\ p < Len(s)
    /\ s[p - 1] \notin Whitespace
    /\ s[p + 1] \notin Whitespace

\* characters outside ASCII letters, digits and whitespace
OutsideAscii(ch) == ch \in {HY, EACUTE, eacute, KELVIN}

\* s with one character outside ASCII letters, digits and whitespace dropped
PunctuationVariants(s) ==
    {RemoveAt(s, p) : p \in {q \in 1..Len(s) : OutsideAscii(s[q]) /\ ~SoleSeparator(s, q)}}

\* as before, for the characters whose lower-case form is outside a-z, 0-9
\* and whitespace as well
DroppedVariants(s) ==
    {RemoveAt(s, p) : p \in {q \in 1..Len(s) :
        /\ OutsideAscii(s[q])
        /\ ~KeptByNormalize(ToLower(s[q]))
        /\ ~SoleSeparator(s, q)}}

InitNormalize ==
    /\ m3u_channels = <<>>
    /\ xmltv_channels = <<>>
    /\ threshold = 0
    /\ preserve_existing = FALSE
    /\ cb_supplied = FALSE
    /\ pc = "normalize"
    /\ i = 0
    /\ indices = NotBuilt
    /\ processed_channels_data = <<>>
    /\ examined = 0
    /\ cb_log = <<>>
    /\ cb_active = 0
    /\ cb_seen = <<>>
    /\ rule_log = <<>>
    /\ match_ret = NotReturned
    /\ out_file = NotOpened
    /\ count = 0
    /\ m3u_ret = NotReturned
    /\ XmltvIdle
    /\ DownloadIdle
    /\ AppIdle
    /\ \E x \in NameStrings :
         \E y \in {x} \cup CaseVariants(x) \cup PunctuationVariants(x) :
            norm_args = [x |-> x, y |-> y]
    /\ normalized = [x |-> NotReturned, y |-> NotReturned, xx |-> NotReturned]

\* a returned value
Returned(v) == [returned |-> TRUE, value |-> v]

norm_frame == <<inputs, processed_channels_data, auto_match_vars, gen_vars,
                xmltv_vars, dl_vars, pc, i, norm_args, app_vars>>

\* normalize_name(x)
NormalizeFirst ==
    /\ pc = "normalize"
    /\ ~normalized.x.returned
    /\ normalized' = [normalized EXCEPT !.x = Returned(normalize_name(norm_args.x))]
    /\ UNCHANGED norm_frame

\* normalize_name(y)
NormalizeSecond ==
    /\ pc = "normalize"
    /\ ~normalized.y.returned
    /\ normalized' = [normalized EXCEPT !.y = Returned(normalize_name(norm_args.y))]
    /\ UNCHANGED norm_frame

\* normalize_name applied to the value it returned for x
NormalizeResult ==
    /\ pc = "normalize"
    /\ normalized.x.returned
    /\ ~normalized.xx.returned
    /\ normalized' = [normalized EXCEPT !.xx = Returned(normalize_name(normalized.x.value))]
    /\ UNCHANGED norm_frame

NextNormalize == NormalizeFirst \/ NormalizeSecond \/ NormalizeResult

SpecNormalize == InitNormalize /\ [][NextNormalize]_vars

-----------------------------------------------------------------------------
(* Properties of normalize_name, checked under SpecNormalize *)

BothNormalized == normalized.x.returned /\ normalized.y.returned

-----------------------------------------------------------------------------
(* The application around the engine (src/app.py): data *)

\* longest playlist the playlist folder holds
MaxFolderPlaylist == 2

\* the entries of the playlist folder: one of group "g", one of group "z"
FolderEntries == {parse_m3u(D_plain, UrlOf(D_plain)), parse_m3u(D_nonum, UrlOf(D_nonum))}
PlaylistFolders == SeqsUpTo(FolderEntries, MaxFolderPlaylist)

\* the guide folder: empty, one channel, two channels of the same
\* normalized name
GuideFolderContents == {GuideOf(<<>>), GuideOf(<<Ch_plain>>), GuideOf(<<Ch_plain, Ch_comma>>)}

\* the group lists --include-groups (or sources.json) can give
GroupLists == {{}, {<<"g">>}, {<<"z">>}}

RECURSIVE MatchAll(_, _, _, _, _)
MatchAll(ms, n, xs, thr, preserve) ==
    IF n = 0 THEN {<<>>}
    ELSE {Append(r, NewMatchResult(ms[n], o, thr)) :
            r \in MatchAll(ms, n - 1, xs, thr, preserve),
            o \in MatchOutcomes(ms[n], xs, build_xmltv_indices(xs), preserve)}

\* the lists auto_match_channels can return
AutoMatchResults(ms, xs, thr, preserve) ==
    IF Len(xs) = 0 THEN {<<>>} ELSE MatchAll(ms, Len(ms), xs, thr, preserve)

\* lines 455-500 with headless=True: the catalogs and the set of result
\* lists the call can leave behind
LoadedPlaylist(pf) == pf
LoadedGuide(pf, gf) == IF Len(pf) = 0 THEN <<>> ELSE gf
LoadedResults(pf, gf, thr, preserve) ==
    IF Len(pf) = 0 \/ Len(gf) = 0 THEN {<<>>}
    ELSE AutoMatchResults(pf, gf, thr, preserve)

\* lines 854-858: the result rebuilt from a session item
Reconstructed(item, by_id) ==
    [m3u_data |-> item.m3u_data,
     xmltv_match |->
        IF item.xmltv_match = None \/ item.xmltv_match.id = <<>> THEN None
        ELSE IF item.xmltv_match.id \in DOMAIN by_id THEN by_id[item.xmltv_match.id]
        ELSE [id |-> item.xmltv_match.id,
              display_name |-> item.xmltv_match.display_name, element |-> None],
     score |-> item.score,
     selected |-> item.selected]

\* lines 842-850: the catalog after the session loader has parsed the folder
ExtendedCatalog(xs, gf) == xs \o gf

\* session files: the empty list, one matched item above every threshold
\* but not selected, and that item with an unmatched, selected one
S_matched ==
    [m3u_data |-> parse_m3u(D_plain, UrlOf(D_plain)), score |-> 100, selected |-> FALSE,
     xmltv_match |-> [id |-> <<"x">>, display_name |-> <<"a", "b">>]]
S_unmatched ==
    [m3u_data |-> parse_m3u(D_nonum, UrlOf(D_nonum)), score |-> 0, selected |-> TRUE,
     xmltv_match |-> None]
SessionFiles == {<<>>, <<S_matched>>, <<S_matched, S_unmatched>>}

RECURSIVE M3uLines(_, _)
\* lines 229-242 of generate_m3u for the first n results
M3uLines(results, n) ==
    IF n = 0 THEN <<M3uHeader>>
    ELSE M3uLines(results, n - 1) \o
         (IF IsWritten(results[n])
          THEN <<RewrittenExtinf(results[n].m3u_data, results[n].xmltv_match),
                 results[n].m3u_data.url>>
          ELSE <<>>)

\* the guide folder as generate_xmltv lists it: one well-formed file with a
\* programme for every channel
FolderFiles(gf) ==
    IF Len(gf) = 0 THEN <<>>
    ELSE <<[channels |-> [k \in 1..Len(gf) |-> gf[k].id],
            programmes |-> [k \in 1..Len(gf) |-> gf[k].id],
            state |-> "ok", cut |-> 0]>>

\* lines 247-318 of generate_xmltv on that folder: the file at the output
\* path and the returned counts
XmltvElements(results, gf) ==
    CapturedElements(results,
        FullChannelDataMap(AllSourceChannels(FolderFiles(gf), Len(FolderFiles(gf)))))
XmltvDocument(results, gf) ==
    WrittenChannels(XmltvElements(results, gf)) \o
    (IF Len(gf) = 0 THEN <<>>
     ELSE WrittenProgrammes(FolderFiles(gf)[1], 1, CollectedIds(results),
                            XmltvElements(results, gf)))
XmltvProgrammes(results, gf) ==
    Len(XmltvDocument(results, gf)) - Len(WrittenChannels(XmltvElements(results, gf)))

-----------------------------------------------------------------------------
(* run_headless as a process *)

HeadlessArgs ==
    {[headless |-> TRUE, filter_given |-> fg, include_groups |-> g,
      load_session |-> ls, download |-> dl, output_m3u |-> om, output_xmltv |-> ox] :
        fg \in BOOLEAN, g \in GroupLists, ls \in BOOLEAN, dl \in BOOLEAN,
        om \in BOOLEAN, ox \in BOOLEAN}

InitHeadless ==
    /\ m3u_channels = <<>>
    /\ xmltv_channels = <<>>
    /\ threshold \in Thresholds
    /\ preserve_existing \in BOOLEAN
    /\ cb_supplied = FALSE
    /\ pc = "hl_called"
    /\ i = 0
    /\ indices = NotBuilt
    /\ processed_channels_data = <<>>
    /\ examined = 0
    /\ cb_log = <<>>
    /\ cb_active = 0
    /\ cb_seen = <<>>
    /\ rule_log = <<>>
    /\ match_ret = NotReturned
    /\ out_file = <<>>                 \* no line at the output path
    /\ count = 0
    /\ m3u_ret = NotReturned
    /\ xmltv_files = <<>>
    /\ selected_channel_ids = {}
    /\ channel_elements_to_write = <<>>
    /\ program_count = 0
    /\ xmltv_out = OutMissing
    /\ xmltv_ret = NotReturned
    /\ DownloadIdle
    /\ NormalizeIdle
    /\ args \in {a \in HeadlessArgs : a.filter_given \/ a.include_groups = {}}
    /\ playlist_folder \in PlaylistFolders
    /\ guide_folder \in GuideFolderContents
    /\ session_file \in (IF args.load_session THEN SessionFiles ELSE {<<>>})
    /\ is_loading = FALSE
    /\ tree_rows = {}
    /\ gui_op = NoOp

\* what no step of run_headless touches
hl_frame == <<threshold, preserve_existing, cb_supplied, i, auto_match_vars, count,
              selected_channel_ids, channel_elements_to_write, program_count,
              dl_vars, norm_vars, args, playlist_folder, guide_folder, session_file,
              is_loading, tree_rows, gui_op>>

\* lines 965-968, 981-984: --download without a sources file ends the run
HeadlessSourcesMissing ==
    /\ pc = "hl_called"
    /\ args.download
    /\ pc' = "hl_finished"
    /\ UNCHANGED <<hl_frame, m3u_channels, xmltv_channels, processed_channels_data,
                   out_file, m3u_ret, xmltv_files, xmltv_out, xmltv_ret>>

\* lines 972, 986 with 559-569: the download brings no playlist, nothing is
\* loaded
HeadlessDownloadFails ==
    /\ pc = "hl_called"
    /\ args.download
    /\ pc' = "hl_loaded"
    /\ UNCHANGED <<hl_frame, m3u_channels, xmltv_channels, processed_channels_data,
                   out_file, m3u_ret, xmltv_files, xmltv_out, xmltv_ret>>

\* lines 991 and 563: _load_and_process_channels_thread(headless=True),
\* called directly or after a download that brought a playlist
HeadlessLoad ==
    /\ pc = "hl_called"
    /\ args.download \/ ~args.load_session
    /\ m3u_channels' = LoadedPlaylist(playlist_folder)
    /\ xmltv_channels' = LoadedGuide(playlist_folder, guide_folder)
    /\ processed_channels_data' \in
          LoadedResults(playlist_folder, guide_folder, threshold, preserve_existing)
    /\ pc' = "hl_loaded"
    /\ UNCHANGED <<hl_frame, out_file, m3u_ret, xmltv_files, xmltv_out, xmltv_ret>>

\* lines 976-977: _load_session_thread(headless=True)
HeadlessLoadSession ==
    /\ args.load_session
    /\ (pc = "hl_called" /\ ~args.download) \/ pc = "hl_loaded"
    /\ LET catalog == ExtendedCatalog(xmltv_channels, guide_folder)
           by_id == build_xmltv_indices(catalog).channels_by_id
           results == [k \in 1..Len(session_file) |-> Reconstructed(session_file[k], by_id)]
       IN /\ xmltv_channels' = catalog
          /\ processed_channels_data' = results
          /\ m3u_channels' = [k \in 1..Len(results) |-> results[k].m3u_data]
    /\ pc' = "hl_selected"
    /\ UNCHANGED <<hl_frame, out_file, m3u_ret, xmltv_files, xmltv_out, xmltv_ret>>

\* lines 993-1002: the include_groups filter on the playlist catalog, then
\* the threshold pass over the results
HeadlessFilterAndSelect ==
    /\ pc = "hl_loaded"
    /\ ~args.load_session
    /\ m3u_channels' =
          IF args.filter_given
          THEN SelectSeq(m3u_channels, LAMBDA ch : ch.group_title \in args.include_groups)
          ELSE m3u_channels
    /\ processed_channels_data' =
          [k \in 1..Len(processed_channels_data) |->
              [processed_channels_data[k] EXCEPT
                  !.selected = (processed_channels_data[k].score >= threshold)]]
    /\ pc' = "hl_selected"
    /\ UNCHANGED <<hl_frame, xmltv_channels, out_file, m3u_ret, xmltv_files, xmltv_out,
                   xmltv_ret>>

\* lines 1007-1008
HeadlessGenerateM3U ==
    /\ pc = "hl_selected"
    /\ args.output_m3u
    /\ out_file' = M3uLines(processed_channels_data, Len(processed_channels_data))
    /\ m3u_ret' = (Len(out_file') - 1) \div 2
    /\ pc' = "hl_m3u_done"
    /\ UNCHANGED <<hl_frame, m3u_channels, xmltv_channels, processed_channels_data,
                   xmltv_files, xmltv_out, xmltv_ret>>

\* line 1007 without --output-m3u
HeadlessSkipM3U ==
    /\ pc = "hl_selected"
    /\ ~args.output_m3u
    /\ pc' = "hl_m3u_done"
    /\ UNCHANGED <<hl_frame, m3u_channels, xmltv_channels, processed_channels_data,
                   out_file, m3u_ret, xmltv_files, xmltv_out, xmltv_ret>>

\* lines 1010-1011
HeadlessGenerateXmltv ==
    /\ pc = "hl_m3u_done"
    /\ args.output_xmltv
    /\ xmltv_files' = FolderFiles(guide_folder)
    /\ IF CollectedIds(processed_channels_data) = {}
       THEN /\ xmltv_out' = xmltv_out
            /\ xmltv_ret' = <<0, 0>>
       ELSE /\ xmltv_out' = [exists |-> TRUE, open |-> FALSE, complete |-> TRUE,
                             doc |-> XmltvDocument(processed_channels_data, guide_folder)]
            /\ xmltv_ret' =
                  <<Cardinality(DOMAIN XmltvElements(processed_channels_data, guide_folder)),
                    XmltvProgrammes(processed_channels_data, guide_folder)>>
    /\ pc' = "hl_finished"
    /\ UNCHANGED <<hl_frame, m3u_channels, xmltv_channels, processed_channels_data,
                   out_file, m3u_ret>>

\* line 1010 without --output-xmltv
HeadlessSkipXmltv ==
    /\ pc = "hl_m3u_done"
    /\ ~args.output_xmltv
    /\ pc' = "hl_finished"
    /\ UNCHANGED <<hl_frame, m3u_channels, xmltv_channels, processed_channels_data,
                   out_file, m3u_ret, xmltv_files, xmltv_out, xmltv_ret>>

NextHeadless ==
    \/ HeadlessSourcesMissing
    \/ HeadlessDownloadFails
    \/ HeadlessLoad
    \/ HeadlessLoadSession
    \/ HeadlessFilterAndSelect
    \/ HeadlessGenerateM3U
    \/ HeadlessSkipM3U
    \/ HeadlessGenerateXmltv
    \/ HeadlessSkipXmltv

SpecHeadless == InitHeadless /\ [][NextHeadless]_vars

-----------------------------------------------------------------------------
(* Properties of run_headless, checked under SpecHeadless *)

\* the run was given a group list and no session, and has finished
FilteredRunFinished ==
    /\ pc = "hl_finished"
    /\ args.filter_given
    /\ ~args.load_session

\* the playlist entries of the folder whose group label is in the list
IncludedEntries == {e \in Range(playlist_folder) : e.group_title \in args.include_groups}

\* C21: after a headless run with a group list and without a session, every
\* entry in the generated playlist is a folder entry whose group label is in
\* the list, and every channel in the generated guide is associated with a
\* selected result of such an entry.
C21_OnlyIncludedGroups ==
    FilteredRunFinished =>
        /\ \A n \in 2..Len(out_file) :
              n % 2 = 1 => \E e \in IncludedEntries : e.url = out_file[n]
        /\ \A n \in 1..Len(xmltv_out.doc) :
              xmltv_out.doc[n].kind = "channel" =>
                 \E k \in 1..Len(processed_channels_data) :
                    /\ processed_channels_data[k].m3u_data \in IncludedEntries
                    /\ processed_channels_data[k].selected
                    /\ processed_channels_data[k].xmltv_match # None
                    /\ processed_channels_data[k].xmltv_match.id = xmltv_out.doc[n].id

-----------------------------------------------------------------------------
(* The GUI as a process: the Tk thread's handlers and the worker threads *)

\* longest guide catalog the session loader is allowed to build up
MaxCatalog == 3

\* the rows _refresh_treeview inserts: one per result, identified by its
\* index (no filter set)
RowsOf(results) == 0..(Len(results) - 1)

\* a handler's record in gui_op
Ran(name, raised) ==
    [name |-> name, during_worker |-> (pc # "gui_idle"), raised |-> raised]

\* the result list with the selected flag of every row in rows set to v
WithSelected(results, rows, v) ==
    [k \in 1..Len(results) |->
        IF (k - 1) \in rows THEN [results[k] EXCEPT !.selected = v] ELSE results[k]]

InitGui ==
    /\ m3u_channels = <<>>
    /\ xmltv_channels = <<>>
    /\ threshold \in Thresholds
    /\ preserve_existing = TRUE
    /\ cb_supplied = TRUE
    /\ pc = "gui_idle"
    /\ i = 0
    /\ indices = NotBuilt
    /\ processed_channels_data = <<>>
    /\ examined = 0
    /\ cb_log = <<>>
    /\ cb_active = 0
    /\ cb_seen = <<>>
    /\ rule_log = <<>>
    /\ match_ret = NotReturned
    /\ out_file = <<>>
    /\ count = 0
    /\ m3u_ret = NotReturned
    /\ xmltv_files = <<>>
    /\ selected_channel_ids = {}
    /\ channel_elements_to_write = <<>>
    /\ program_count = 0
    /\ xmltv_out = OutMissing
    /\ xmltv_ret = NotReturned
    /\ DownloadIdle
    /\ NormalizeIdle
    /\ args = NoArgs
    /\ playlist_folder = <<>>
    /\ guide_folder \in GuideFolderContents
    /\ session_file \in SessionFiles
    /\ is_loading = FALSE
    /\ tree_rows = {}
    /\ gui_op = NoOp

\* what no handler and no worker touches
gui_frame == <<preserve_existing, cb_supplied, auto_match_vars, count, m3u_ret,
               selected_channel_ids, channel_elements_to_write, program_count,
               xmltv_ret, dl_vars, norm_vars, args, playlist_folder, guide_folder>>

\* the parts of the state a handler leaves alone unless it says otherwise
gui_data == <<m3u_channels, xmltv_channels, processed_channels_data, threshold>>
gui_outputs == <<out_file, xmltv_files, xmltv_out, session_file>>

(* ---- handlers behind widgets that _set_loading_state disables ---- *)

\* lines 417-437: the Load Channels button; the construction of
\* CategorySelectDialog raises (dialogs.py line 330 takes no dark_mode)
GuiStartLoadChannels ==
    /\ ~is_loading
    /\ gui_op' = Ran("load_channels", "TypeError")
    /\ UNCHANGED <<gui_frame, gui_data, gui_outputs, pc, i, is_loading, tree_rows>>

\* lines 806-811: the Remove Categories button; RemoveCategoryDialog raises
\* for the same reason
GuiOpenRemoveCategoryDialog ==
    /\ ~is_loading
    /\ m3u_channels # <<>>
    /\ gui_op' = Ran("remove_categories", "TypeError")
    /\ UNCHANGED <<gui_frame, gui_data, gui_outputs, pc, i, is_loading, tree_rows>>

\* lines 502-507: the Auto-Match button
GuiStartRematch ==
    /\ ~is_loading
    /\ m3u_channels # <<>>
    /\ xmltv_channels # <<>>
    /\ is_loading' = TRUE
    /\ pc' = "rematch"
    /\ gui_op' = Ran("rematch", "nothing")
    /\ UNCHANGED <<gui_frame, gui_data, gui_outputs, i, tree_rows>>

\* lines 832-836: the Load Session button
GuiLoadSession ==
    /\ ~is_loading
    /\ Len(xmltv_channels) + Len(guide_folder) <= MaxCatalog
    /\ is_loading' = TRUE
    /\ pc' = "session"
    /\ gui_op' = Ran("load_session", "nothing")
    /\ UNCHANGED <<gui_frame, gui_data, gui_outputs, i, tree_rows>>

ThresholdOnlyDeselects(t) ==
    /\ ~is_loading
    /\ threshold' = t
    /\ processed_channels_data' =
          [k \in 1..Len(processed_channels_data) |->
              [processed_channels_data[k] EXCEPT
                  !.selected = (@ /\ processed_channels_data[k].score >= t)]]
    /\ tree_rows' = RowsOf(processed_channels_data')
    /\ gui_op' = Ran("threshold", "nothing")
    /\ UNCHANGED <<gui_frame, m3u_channels, xmltv_channels, gui_outputs, pc, i, is_loading>>

\* lines 608-612: the threshold slider
GuiThresholdChange(t) ==
    /\ ~is_loading
    /\ threshold' = t
    /\ processed_channels_data' =
          [k \in 1..Len(processed_channels_data) |->
              [processed_channels_data[k] EXCEPT
                  !.selected = (processed_channels_data[k].score >= t)]]
    /\ tree_rows' = RowsOf(processed_channels_data')
    /\ gui_op' = Ran("threshold", "nothing")
    /\ UNCHANGED <<gui_frame, m3u_channels, xmltv_channels, gui_outputs, pc, i, is_loading>>

\* lines 872-883: the M3U button
GuiGenerateM3U ==
    /\ ~is_loading
    /\ out_file' = M3uLines(processed_channels_data, Len(processed_channels_data))
    /\ gui_op' = Ran("generate_m3u", "nothing")
    /\ UNCHANGED <<gui_frame, gui_data, xmltv_files, xmltv_out, session_file, pc, i,
                   is_loading, tree_rows>>

\* lines 885-896: the XMLTV button
GuiGenerateXmltv ==
    /\ ~is_loading
    /\ xmltv_files' = FolderFiles(guide_folder)
    /\ xmltv_out' =
          IF CollectedIds(processed_channels_data) = {} THEN xmltv_out
          ELSE [exists |-> TRUE, open |-> FALSE, complete |-> TRUE,
                doc |-> XmltvDocument(processed_channels_data, guide_folder)]
    /\ gui_op' = Ran("generate_xmltv", "nothing")
    /\ UNCHANGED <<gui_frame, gui_data, out_file, session_file, pc, i, is_loading,
                   tree_rows>>

(* ---- handlers of the tree, which _set_loading_state leaves enabled ---- *)

\* lines 714-720: a click in the "selected" column of row k
GuiTreeClick(k) ==
    /\ k \in tree_rows
    /\ IF k < Len(processed_channels_data)
       THEN /\ processed_channels_data' =
                  WithSelected(processed_channels_data, {k},
                               ~processed_channels_data[k + 1].selected)
            /\ gui_op' = Ran("toggle", "nothing")
       ELSE /\ processed_channels_data' = processed_channels_data
            /\ gui_op' = Ran("toggle", "IndexError")
    /\ UNCHANGED <<gui_frame, m3u_channels, xmltv_channels, threshold, gui_outputs, pc, i,
                   is_loading, tree_rows>>

\* lines 722-730: a click on the heading of the "selected" column
GuiToggleSelectAll ==
    /\ tree_rows # {}
    /\ LET known == tree_rows \cap RowsOf(processed_channels_data)
           stale == tree_rows \ known
           all_known_selected == \A k \in known : processed_channels_data[k + 1].selected
       IN IF all_known_selected /\ stale # {}
          THEN \* all(...) reaches a row the list no longer has
               /\ processed_channels_data' = processed_channels_data
               /\ gui_op' = Ran("select_all", "IndexError")
          ELSE /\ processed_channels_data' =
                     WithSelected(processed_channels_data, known, ~all_known_selected)
               /\ gui_op' = Ran("select_all",
                                IF stale # {} THEN "IndexError" ELSE "nothing")
    /\ UNCHANGED <<gui_frame, m3u_channels, xmltv_channels, threshold, gui_outputs, pc, i,
                   is_loading, tree_rows>>

\* lines 795-804: Unmatch in the context menu, row k being the selection
GuiUnmatchSelectedChannel(k) ==
    /\ k \in tree_rows
    /\ IF k < Len(processed_channels_data)
       THEN /\ processed_channels_data' =
                  [processed_channels_data EXCEPT
                      ![k + 1] = [@ EXCEPT !.xmltv_match = None, !.score = 0,
                                           !.selected = FALSE]]
            /\ tree_rows' = RowsOf(processed_channels_data')
            /\ gui_op' = Ran("unmatch", "nothing")
       ELSE /\ processed_channels_data' = processed_channels_data
            /\ tree_rows' = tree_rows
            /\ gui_op' = Ran("unmatch", "IndexError")
    /\ UNCHANGED <<gui_frame, m3u_channels, xmltv_channels, threshold, gui_outputs, pc, i,
                   is_loading>>

\* lines 732-769: a double click on row k; the handler reads the result of
\* every visible row, then the construction of ManualMatchDialog raises
\* (dialogs.py line 13 takes no dark_mode), so manual_match_callback is
\* never handed to a dialog
GuiTreeDoubleClick(k) ==
    /\ k \in tree_rows
    /\ gui_op' = Ran("manual_match",
                     IF tree_rows \subseteq RowsOf(processed_channels_data)
                     THEN "TypeError" ELSE "IndexError")
    /\ UNCHANGED <<gui_frame, gui_data, gui_outputs, pc, i, is_loading, tree_rows>>

\* lines 702-709 with 618-700: a click on a column heading re-sorts, which
\* rebuilds the rows from the list as it is
GuiSortColumn ==
    /\ tree_rows' = RowsOf(processed_channels_data)
    /\ gui_op' = Ran("sort", "nothing")
    /\ UNCHANGED <<gui_frame, gui_data, gui_outputs, pc, i, is_loading>>

(* ---- the worker threads ---- *)

\* lines 509-516: _rematch_thread assigns the new result list
RematchAssign ==
    /\ pc = "rematch"
    /\ processed_channels_data' \in
          AutoMatchResults(m3u_channels, xmltv_channels, threshold, preserve_existing)
    /\ pc' = "handoff"
    /\ UNCHANGED <<gui_frame, m3u_channels, xmltv_channels, threshold, gui_outputs, i,
                   is_loading, tree_rows, gui_op>>

\* lines 840-850: _load_session_thread reads the file and parses the guide
\* folder into the catalog it already has
SessionParse ==
    /\ pc = "session"
    /\ xmltv_channels' = ExtendedCatalog(xmltv_channels, guide_folder)
    /\ pc' = "session_parsed"
    /\ UNCHANGED <<gui_frame, m3u_channels, processed_channels_data, threshold,
                   gui_outputs, i, is_loading, tree_rows, gui_op>>

\* line 852
SessionClear ==
    /\ pc = "session_parsed"
    /\ processed_channels_data' = <<>>
    /\ i' = 0
    /\ pc' = "session_fill"
    /\ UNCHANGED <<gui_frame, m3u_channels, xmltv_channels, threshold, gui_outputs,
                   is_loading, tree_rows, gui_op>>

\* lines 853-858: one item of the file
SessionAppend ==
    /\ pc = "session_fill"
    /\ i < Len(session_file)
    /\ processed_channels_data' =
          Append(processed_channels_data,
                 Reconstructed(session_file[i + 1],
                               build_xmltv_indices(xmltv_channels).channels_by_id))
    /\ i' = i + 1
    /\ UNCHANGED <<gui_frame, m3u_channels, xmltv_channels, threshold, gui_outputs, pc,
                   is_loading, tree_rows, gui_op>>

\* lines 860-863
SessionFinish ==
    /\ pc = "session_fill"
    /\ i = Len(session_file)
    /\ m3u_channels' =
          [k \in 1..Len(processed_channels_data) |-> processed_channels_data[k].m3u_data]
    /\ pc' = "handoff"
    /\ UNCHANGED <<gui_frame, xmltv_channels, processed_channels_data, threshold,
                   gui_outputs, i, is_loading, tree_rows, gui_op>>

\* lines 520-523, 867-870: the two callbacks the worker queued with
\* master.after run on the Tk thread
GuiHandOff ==
    /\ pc = "handoff"
    /\ is_loading' = FALSE
    /\ tree_rows' = RowsOf(processed_channels_data)
    /\ pc' = "gui_idle"
    /\ UNCHANGED <<gui_frame, gui_data, gui_outputs, i, gui_op>>

NextGui ==
    \/ GuiStartLoadChannels
    \/ GuiOpenRemoveCategoryDialog
    \/ GuiStartRematch
    \/ GuiLoadSession
    \/ \E t \in Thresholds : GuiThresholdChange(t)
    \/ GuiGenerateM3U
    \/ GuiGenerateXmltv
    \/ \E k \in tree_rows : GuiTreeClick(k)
    \/ GuiToggleSelectAll
    \/ \E k \in tree_rows : GuiUnmatchSelectedChannel(k)
    \/ \E k \in tree_rows : GuiTreeDoubleClick(k)
    \/ GuiSortColumn
    \/ RematchAssign
    \/ SessionParse
    \/ SessionClear
    \/ SessionAppend
    \/ SessionFinish
    \/ GuiHandOff

SpecGui == InitGui /\ [][NextGui]_vars

-----------------------------------------------------------------------------
(* Properties of the GUI, checked under SpecGui *)

\* the handlers that read or write processed_channels_data by row
ResultHandlers == {"toggle", "select_all", "unmatch", "manual_match", "threshold"}

C24_CatalogIsTheFolder ==
    xmltv_channels = <<>> \/ xmltv_channels = guide_folder

\* what a result's selection, score and association are
Decisions(results) ==
    [k \in 1..Len(results) |->
        [selected |-> results[k].selected, score |-> results[k].score,
         xmltv_match |-> results[k].xmltv_match]]

\* the steps that are an explicit decision about results: a toggle, a
\* select-all, an unmatch, a threshold change
ExplicitDecision ==
    \/ \E k \in tree_rows : GuiTreeClick(k)
    \/ GuiToggleSelectAll
    \/ \E k \in tree_rows : GuiUnmatchSelectedChannel(k)
    \/ \E t \in Thresholds : GuiThresholdChange(t)

\* the steps by which a worker the user started installs a new list of new
\* results
NewResultList == RematchAssign \/ SessionClear \/ SessionAppend

====
